---------------------------- MODULE Spec2Model ----------------------------
(***************************************************************************)
(* Model of the backend generation route of the AI fashion image          *)
(* generator (server.js: app.post('/generate')) together with the prompt  *)
(* helpers it calls, the data-URI decoding, the timeout race against the   *)
(* remote model, and the local persistence of the image and its metadata.  *)
(* The start of the server process (directory setup, credential check,     *)
(* app.listen) and the browser client (the gallery, generation and         *)
(* settings stores and the App and EnvironmentSettings handlers) are       *)
(* modelled next to it, each with a specification of its own.              *)
(*                                                                         *)
(* JavaScript strings are sequences of one-character strings, so that      *)
(* startsWith, includes, split, toLowerCase and the data-URI regular       *)
(* expression are computed as the code computes them.  Fixed text of a     *)
(* template literal is kept as one token of the sequence.                  *)
(***************************************************************************)
EXTENDS Integers, Sequences, FiniteSets, TLC

(***************************************************************************)
(* Bounds of the model.                                                    *)
(***************************************************************************)
\* Number of /generate requests in one run.
MaxRequests == 2
\* Number of filesystem failures (image write, metadata read, metadata write)
\* in one run.
MaxFaults == 1

\* Number of addImage calls on the gallery store in one run.
MaxAdds == 22
\* Number of deleteImage calls on the gallery store in one run.
MaxDeletes == 1
\* Number of clicks on the Generate button in one run.
MaxClicks == 3

Requests == 1..MaxRequests

(***************************************************************************)
(* String primitives of JavaScript used by the route.                      *)
(***************************************************************************)
StartsWith(s, p) == Len(s) >= Len(p) /\ SubSeq(s, 1, Len(p)) = p

Includes(s, sub) ==
    \E i \in 1..(Len(s) - Len(sub) + 1) : SubSeq(s, i, i + Len(sub) - 1) = sub

UpperCaseLetters == <<"A", "B", "C", "D", "E", "F", "G", "H", "I", "J", "K", "L", "M", "N", "O",
                      "P", "Q", "R", "S", "T", "U", "V", "W", "X", "Y", "Z">>

LowerCaseLetters == <<"a", "b", "c", "d", "e", "f", "g", "h", "i", "j", "k", "l", "m", "n", "o",
                      "p", "q", "r", "s", "t", "u", "v", "w", "x", "y", "z">>

Digits == <<"0", "1", "2", "3", "4", "5", "6", "7", "8", "9">>

Range(s) == {s[i] : i \in 1..Len(s)}

LowerChar(c) ==
    IF c \in Range(UpperCaseLetters)
    THEN LowerCaseLetters[CHOOSE i \in 1..26 : UpperCaseLetters[i] = c]
    ELSE c

ToLowerCase(s) == [i \in 1..Len(s) |-> LowerChar(s[i])]

\* \w of a JavaScript regular expression.
IsWordChar(c) ==
    c \in Range(UpperCaseLetters) \cup Range(LowerCaseLetters) \cup Range(Digits) \cup {"_"}

\* Characters the regular expression's "." does not match.
IsLineTerminator(c) == c \in {"\n", "\r"}

\* Index of the first "/" of s, or 0.
FirstSlash(s) ==
    IF \E i \in 1..Len(s) : s[i] = "/"
    THEN CHOOSE i \in 1..Len(s) : s[i] = "/" /\ \A j \in 1..(i - 1) : s[j] # "/"
    ELSE 0

\* s.split('/')[1]: the text between the first and the second "/";
\* defined is FALSE when s holds no "/" (the element is undefined).
SplitSlashSecond(s) ==
    LET i == FirstSlash(s)
        rest == SubSeq(s, i + 1, Len(s))
        j == FirstSlash(rest)
    IN  IF i = 0 THEN [defined |-> FALSE, s |-> <<>>]
        ELSE [defined |-> TRUE,
              s |-> IF j = 0 THEN rest ELSE SubSeq(rest, 1, j - 1)]

(***************************************************************************)
(* JavaScript values of the request body: undefined, a string, or a value  *)
(* that is not a string (a number, rendered by String() as its digits).    *)
(***************************************************************************)
JSUndefined == [t |-> "undefined", s |-> <<>>]

JSString(s) == [t |-> "string", s |-> s]

JSNumber == [t |-> "number", s |-> <<"4", "2">>]

Truthy(v) == (v.t = "string" /\ v.s # <<>>) \/ v.t = "number"

IsString(v) == v.t = "string"

\* The value a template literal `${v}` interpolates.
Interpolate(v) == IF v.t = "undefined" THEN <<"u", "n", "d", "e", "f", "i", "n", "e", "d">> ELSE v.s

(***************************************************************************)
(* Prompt construction (route step 1 and its three helper functions).      *)
(* Each operator returns the text the code builds; Throws... tells when    *)
(* the code raises a TypeError instead (a method of String called on a     *)
(* value that is not a string).                                            *)
(***************************************************************************)
\* Array.prototype.join(', ')
RECURSIVE JoinComma(_)
JoinComma(frags) ==
    IF Len(frags) = 0 THEN <<>>
    ELSE IF Len(frags) = 1 THEN frags[1]
    ELSE frags[1] \o <<", ">> \o JoinComma(Tail(frags))

EthnicityFragment(ms) ==
    LET e == ms.ethnicity
        l == ToLowerCase(e.s)
    IN  IF Truthy(e) /\ l # <<"d", "e", "f", "a", "u", "l", "t">> /\ l # <<"a", "m", "b", "i", "g", "u", "o", "u", "s", " ", "e", "t", "h", "n", "i", "c", "i", "t", "y">> /\ l # <<"u", "n", "s", "p", "e", "c", "i", "f", "i", "e", "d">>
        THEN IF l = <<"d", "i", "v", "e", "r", "s",
                      "e">> THEN << <<"with diverse ethnic features">> >> ELSE <<e.s>>
        ELSE <<>>

\* BodyTypeFragment comparing the value itself, not its lower-case form.
BodyTypeFragment_CaseSensitive(ms) ==
    LET b == ms.bodyType
    IN  IF Truthy(b) /\ b.s # <<"d", "e", "f", "a", "u", "l", "t">> /\ b.s # <<"a", "v", "e", "r", "a", "g", "e">>
        THEN << <<"with ">> \o b.s \o <<" body proportions">> >>
        ELSE <<>>

BodyTypeFragment(ms) ==
    LET b == ms.bodyType
        l == ToLowerCase(b.s)
    IN  IF Truthy(b) /\ l # <<"d", "e", "f", "a", "u", "l", "t">> /\ l # <<"a", "v", "e", "r", "a", "g", "e">>
        THEN << <<"with ">> \o b.s \o <<" body proportions">> >>
        ELSE <<>>

AgeRangeFragment(ms) ==
    LET a == ms.ageRange
    IN  IF Truthy(a) /\ ToLowerCase(a.s) # <<"d", "e", "f", "a", "u", "l", "t">> /\ a.s # <<"2", "6", "-", "3", "5">>
        THEN << <<"in the ">> \o a.s \o <<" age range">> >>
        ELSE <<>>

HeightFragment(ms) ==
    LET h == ms.height
    IN  IF Truthy(h) /\ IsString(h) /\ ToLowerCase(h.s) # <<"a", "v", "e", "r", "a", "g", "e">>
        THEN << <<"of ">> \o ToLowerCase(h.s) \o <<" height">> >>
        ELSE <<>>

HairFragment(ms) ==
    LET hs == ms.hairStyle
        hc == ms.hairColor
    IN  IF Truthy(hs) /\ IsString(hs)
        THEN IF Truthy(hc) /\ IsString(hc)
             THEN << <<"with ">> \o ToLowerCase(hs.s) \o <<", ">> \o ToLowerCase(hc.s)
                     \o <<" hair">> >>
             ELSE << <<"with ">> \o ToLowerCase(hs.s) \o <<" hair">> >>
        ELSE IF Truthy(hc) /\ IsString(hc)
             THEN << <<"with ">> \o ToLowerCase(hc.s) \o <<" hair">> >>
             ELSE <<>>

AccessoriesFragment(ms) ==
    LET a == ms.accessories
    IN  IF Truthy(a) /\ IsString(a) /\ ToLowerCase(a.s) # <<"n", "o", "n", "e">>
        THEN << <<"wearing ">> \o ToLowerCase(a.s) >>
        ELSE <<>>

\* The array subjectAttributes after all pushes.
subjectAttributes(ms) ==
    EthnicityFragment(ms) \o BodyTypeFragment(ms) \o AgeRangeFragment(ms)
        \o HeightFragment(ms) \o HairFragment(ms) \o AccessoriesFragment(ms)

attributeString(ms) ==
    IF Len(subjectAttributes(ms)) > 0
    THEN JoinComma(subjectAttributes(ms)) \o <<" ">>
    ELSE <<>>

gender(ms) == IF Truthy(ms.gender) THEN Interpolate(ms.gender) ELSE <<"f", "e", "m", "a", "l", "e">>

poseDescription(ms) ==
    IF Truthy(ms.pose) /\ IsString(ms.pose)
    THEN <<"in a ">> \o ToLowerCase(ms.pose.s) \o <<" pose">>
    ELSE <<"standing in a natural, relaxed pose">>

subjectSection(ms) ==
    <<"a ">> \o attributeString(ms) \o gender(ms) \o <<" fashion model ">>
        \o poseDescription(ms)
        \o <<" wearing the clothing item shown in the provided image">>

\* ethnicity, bodyType or ageRange is truthy but has no toLowerCase method.
ThrowsInSubject(ms) ==
    \/ Truthy(ms.ethnicity) /\ ~IsString(ms.ethnicity)
    \/ Truthy(ms.bodyType) /\ ~IsString(ms.bodyType)
    \/ Truthy(ms.ageRange) /\ ~IsString(ms.ageRange)

\* backgroundPreset || 'studio-white'
EffectivePreset(es) ==
    IF Truthy(es.backgroundPreset) THEN es.backgroundPreset
    ELSE JSString(<<"s", "t", "u", "d", "i", "o", "-", "w", "h", "i", "t", "e">>)

\* The switch over the preset key (strict equality with each case label).
PresetDescription(preset) ==
    IF ~IsString(preset) THEN "Clean, well-lit background"
    ELSE CASE preset.s = <<"s", "t", "u", "d", "i", "o", "-", "w", "h", "i", "t",
                           "e">> -> "Clean, professional white studio background"
           [] preset.s = <<"s", "t", "u", "d", "i", "o", "-", "g", "r", "a", "d", "i", "e", "n",
                           "t">> ->
                "Clean, professional studio background with a subtle color gradient"
           [] preset.s = <<"i", "n", "-", "s", "t", "o", "r", "e">> ->
                "Tasteful retail store environment with appropriate fixtures"
           [] preset.s = <<"l", "i", "f", "e", "s", "t", "y", "l", "e", "-", "h", "o", "m", "e">> ->
                "Lifestyle home setting with tasteful, uncluttered interior design"
           [] preset.s = <<"l", "i", "f", "e", "s", "t", "y", "l", "e", "-", "o", "f", "f", "i",
                           "c", "e">> -> "Professional lifestyle office setting"
           [] preset.s = <<"o", "u", "t", "d", "o", "o", "r", "-", "u", "r", "b", "a", "n">> ->
                "Outdoor urban city setting with appropriate architecture"
           [] preset.s = <<"o", "u", "t", "d", "o", "o", "r", "-", "n", "a", "t", "u", "r", "e">> ->
                "Outdoor nature setting with appropriate natural elements (trees, greenery, sky)"
           [] preset.s = <<"s", "e", "a", "s", "o", "n", "a", "l", "-", "s", "p", "r", "i", "n",
                           "g">> ->
                "Outdoor setting with a bright, fresh Spring atmosphere"
           [] preset.s = <<"s", "e", "a", "s", "o", "n", "a", "l", "-", "s", "u", "m", "m", "e",
                           "r">> ->
                "Outdoor setting with a warm, sunny Summer atmosphere"
           [] preset.s = <<"s", "e", "a", "s", "o", "n", "a", "l", "-", "f", "a", "l", "l">> ->
                "Outdoor setting with a crisp, colorful Autumn/Fall atmosphere"
           [] preset.s = <<"s", "e", "a", "s", "o", "n", "a", "l", "-", "w", "i", "n", "t", "e",
                           "r">> ->
                "Outdoor setting with a cool, possibly snowy Winter atmosphere"
           [] OTHER -> "Clean, well-lit background"

\* season is a non-empty string, so preset.includes('seasonal') is evaluated.
SeasonTested(es) == Truthy(es.season) /\ IsString(es.season)

\* getBackgroundDescription looking at the preset key before the custom text.
getBackgroundDescription_PresetFirst(es) ==
    IF Truthy(es.backgroundPreset) \/ ~Truthy(es.backgroundCustom)
    THEN <<PresetDescription(EffectivePreset(es))>>
    ELSE <<"Custom setting: ">> \o Interpolate(es.backgroundCustom)

getBackgroundDescription(es) ==
    IF Truthy(es.backgroundCustom)
    THEN <<"Custom setting: ">> \o Interpolate(es.backgroundCustom)
    ELSE LET preset == EffectivePreset(es)
         IN  <<PresetDescription(preset)>>
                \o (IF SeasonTested(es) /\ ~Includes(preset.s, <<"s", "e", "a", "s", "o", "n", "a", "l">>)
                    THEN <<" during ">> \o es.season.s \o <<" season">>
                    ELSE <<>>)

\* preset.includes is called on a preset that is not a string.
ThrowsInBackground(es) ==
    ~Truthy(es.backgroundCustom) /\ SeasonTested(es) /\ ~IsString(EffectivePreset(es))

getAtmosphericDescription(es) ==
    LET timeOfDay == es.timeOfDay
        weather == es.weather
        first == IF Truthy(timeOfDay) /\ IsString(timeOfDay)
                 THEN <<"during ">> \o ToLowerCase(timeOfDay.s)
                 ELSE <<>>
    IN  IF Truthy(weather) /\ IsString(weather)
        THEN IF first # <<>>
             THEN first \o <<" with ">> \o ToLowerCase(weather.s) \o <<" weather conditions">>
             ELSE <<"With ">> \o ToLowerCase(weather.s) \o <<" weather conditions">>
        ELSE first

\* value || fallback, then the typeof value === 'string' test of the template.
StringOrDefault(v, fallback) == IF Truthy(v) /\ IsString(v) THEN v.s ELSE fallback

getTechnicalDescription(es) ==
    <<"Professional fashion photography with ">>
        \o StringOrDefault(es.lighting, <<"S", "t", "u", "d", "i", "o", " ", "S", "o", "f", "t",
                                          "b", "o", "x">>) \o <<" lighting, ">>
        \o <<"shot with a ">>
        \o StringOrDefault(es.lensStyle, <<"F", "a", "s", "h", "i", "o", "n", " ", "M", "a", "g",
                                           "a", "z", "i", "n", "e", " ", "(", "S", "t", "a", "n",
              "d", "a", "r", "d", ")">>)
        \o <<" lens style, ">>
        \o <<"from a ">> \o StringOrDefault(es.cameraAngle, <<"E", "y", "e", " ", "L", "e", "v", "e", "l">>) \o <<" angle, ">>
        \o <<"with perfect exposure and color accuracy.">>

fullSettingSection(es) ==
    IF getAtmosphericDescription(es) # <<>>
    THEN getBackgroundDescription(es) \o <<" ">> \o getAtmosphericDescription(es)
    ELSE getBackgroundDescription(es)

styleSection ==
    <<"The model should look authentic and relatable with a natural expression and a subtle smile. The clothing must fit perfectly and be the visual focus of the image.">>

textPrompt(settings) ==
    <<"CREATE A PHOTOREALISTIC IMAGE of ">> \o subjectSection(settings.modelSettings)
        \o <<"\n\nSetting: ">> \o fullSettingSection(settings.environmentSettings)
        \o <<"\n\nStyle: ">> \o styleSection
        \o <<"\n\nTechnical details: ">>
        \o getTechnicalDescription(settings.environmentSettings)

\* Step 1 throws before the prompt is complete.
ThrowsInPrompt(settings) ==
    ThrowsInSubject(settings.modelSettings)
        \/ ThrowsInBackground(settings.environmentSettings)

(***************************************************************************)
(* Request validation and data-URI decoding.                               *)
(***************************************************************************)
\* Length of the longest prefix of s made of word characters (greedy \w+).
WordRunLength(s) ==
    CHOOSE k \in 0..Len(s) :
        /\ \A i \in 1..k : IsWordChar(s[i])
        /\ (k = Len(s) \/ ~IsWordChar(s[k + 1]))

\* match with any text accepted after the prefix data:image/.
match_AcceptsAnyType(imageData) ==
    LET prefix == <<"d", "a", "t", "a", ":", "i", "m", "a", "g", "e", "/">>
    IN  IF StartsWith(imageData, prefix)
        THEN [matched |-> TRUE, mimeType |-> imageData, base64Data |-> imageData]
        ELSE [matched |-> FALSE, mimeType |-> <<>>, base64Data |-> <<>>]

\* imageData.match(/^data:(image\/\w+);base64,(.+)$/): matched is FALSE for
\* null, otherwise mimeType is group 1 and base64Data is group 2.
match(imageData) ==
    LET prefix == <<"d", "a", "t", "a", ":", "i", "m", "a", "g", "e", "/">>
        rest == SubSeq(imageData, Len(prefix) + 1, Len(imageData))
        k == WordRunLength(rest)
        after == SubSeq(rest, k + 1, Len(rest))
        mark == <<";", "b", "a", "s", "e", "6", "4", ",">>
        payload == SubSeq(after, Len(mark) + 1, Len(after))
        ok == /\ StartsWith(imageData, prefix)
              /\ k >= 1
              /\ StartsWith(after, mark)
              /\ Len(payload) >= 1
              /\ \A i \in 1..Len(payload) : ~IsLineTerminator(payload[i])
    IN  IF ok
        THEN [matched |-> TRUE, mimeType |-> <<"i", "m", "a", "g", "e", "/">> \o SubSeq(rest, 1, k),
              base64Data |-> payload]
        ELSE [matched |-> FALSE, mimeType |-> <<>>, base64Data |-> <<>>]

\* The validation condition of the route, evaluated left to right with
\* short-circuiting: "reject" when it is true, "throw" when evaluating
\* imageData.startsWith raises a TypeError (imageData is truthy but not a
\* string; this happens before the try block), "pass" when it is false.
Validation(b) ==
    IF ~b.settings.present THEN "reject"
    ELSE IF ~Truthy(b.imageData) THEN "reject"
    ELSE IF ~IsString(b.imageData) THEN "throw"
    ELSE IF ~StartsWith(b.imageData.s, <<"d", "a", "t", "a", ":", "i", "m", "a", "g", "e",
                                         "/">>) THEN "reject"
    ELSE IF ~b.settings.modelSettings.present THEN "reject"
    ELSE IF ~b.settings.environmentSettings.present THEN "reject"
    ELSE "pass"

(***************************************************************************)
(* Responses of the route: res.status(n).json({...}).                      *)
(***************************************************************************)
IMAGE_ROUTE_PREFIX == "/images"

\* No image URL (the field is absent from the JSON body).
NoUrl == [route |-> "", generationId |-> 0, fileExtension |-> <<>>]

\* The request has not been answered.
NoResponse ==
    [answered |-> FALSE, json |-> FALSE, status |-> 0, success |-> FALSE,
     message |-> <<>>, imageUrl |-> NoUrl, promptUsed |-> <<>>]

Failure(statusCode, msg) ==
    [answered |-> TRUE, json |-> TRUE, status |-> statusCode, success |-> FALSE,
     message |-> msg, imageUrl |-> NoUrl, promptUsed |-> <<>>]

Success(url, text) ==
    [answered |-> TRUE, json |-> TRUE, status |-> 200, success |-> TRUE,
     message |-> <<>>, imageUrl |-> url, promptUsed |-> text]

\* The answer of the web framework's own error handling when the handler's
\* promise rejects: not produced by the route, and not its JSON envelope.
FrameworkError ==
    [answered |-> TRUE, json |-> FALSE, status |-> 500, success |-> FALSE,
     message |-> <<>>, imageUrl |-> NoUrl, promptUsed |-> <<>>]

ValidationFailure ==
    Failure(400, <<"Invalid request: Ensure settings (modelSettings, environmentSettings) and imageData (data URI) are provided correctly.">>)

FormatFailure == Failure(400, <<"Invalid image data format.">>)

\* The outer catch block; the message of the TypeError is kept as one token.
UnexpectedFailure ==
    Failure(500, <<"Image generation failed due to an unexpected internal server error: ",
                   "TypeError">>)

(***************************************************************************)
(* The remote model call and the classification of its outcome.            *)
(***************************************************************************)
TIMEOUT_MS == 45000

\* String(n) for a natural number.
RECURSIVE Decimal(_)
Decimal(n) ==
    IF n < 10 THEN <<Digits[n + 1]>>
    ELSE Decimal(n \div 10) \o <<Digits[(n % 10) + 1]>>

\* `Request timed out after ${TIMEOUT_MS / 1000} seconds`
TimeoutErrorMessage ==
    <<"R", "e", "q", "u", "e", "s", "t", " ", "t", "i", "m", "e", "d", " ", "o", "u", "t", " ",
      "a", "f", "t", "e", "r", " ">> \o Decimal(TIMEOUT_MS \div 1000) \o <<" ", "s", "e", "c", "o", "n", "d", "s">>

\* ApiErrorResponse without its test for 'timed out': the timeout error is
\* then classified like any other error.
ApiErrorResponse_NoTimeoutBranch(errorMessage) ==
    Failure(500, <<"Image generation failed: ">> \o errorMessage)

\* The catch block around Promise.race: status code and user message from
\* the substrings of the error message, tested in the code's order.
ApiErrorResponse(errorMessage) ==
    IF Includes(errorMessage, <<"t", "i", "m", "e", "d", " ", "o", "u", "t">>)
    THEN Failure(504, <<"Image generation failed: The request took too long.">>)
    ELSE IF \/ Includes(ToLowerCase(errorMessage), <<"p", "e", "r", "m", "i", "s", "s", "i", "o",
                                                     "n">>)
            \/ Includes(errorMessage, <<"n", "o", "t", " ", "f", "o", "u", "n", "d">>)
            \/ Includes(errorMessage, <<"n", "o", "t", " ", "a", "v", "a", "i", "l", "a", "b",
                                        "l", "e">>)
    THEN Failure(403, <<"Image generation failed: Model access denied or not found.">>)
    ELSE IF \/ Includes(ToLowerCase(errorMessage), <<"c", "o", "n", "t", "e", "n", "t">>)
            \/ Includes(ToLowerCase(errorMessage), <<"p", "o", "l", "i", "c", "y">>)
            \/ Includes(ToLowerCase(errorMessage), <<"s", "a", "f", "e", "t", "y">>)
    THEN Failure(400, <<"Image generation failed due to content policy violation.">>)
    ELSE IF Includes(errorMessage, <<"A", "P", "I", " ", "k", "e", "y", " ", "n", "o", "t", " ",
                                     "v", "a", "l", "i", "d">>)
    THEN Failure(401, <<"Image generation failed: Invalid API Key.">>)
    ELSE Failure(500, <<"Image generation failed: ">> \o errorMessage)

\* JSON.stringify of a safetyRatings array.
RECURSIVE StringifyRatings(_)
StringifyRatings(ratings) ==
    IF Len(ratings) = 0 THEN <<>>
    ELSE <<"{\"category\":\"", ratings[1].category, "\",\"probability\":\"",
           ratings[1].probability, "\"}">>
           \o (IF Len(ratings) > 1 THEN <<",">> ELSE <<>>)
           \o StringifyRatings(Tail(ratings))

JSONStringify(ratings) == <<"[">> \o StringifyRatings(ratings) \o <<"]">>

NoRatings == [present |-> FALSE, list |-> <<>>]

\* IsBlocked without its test of candidate.finishReason.
IsBlocked_CandidateOnly(response) == ~response.hasCandidate

\* response.candidates[0] is missing, or finished for a reason other than STOP.
IsBlocked(response) ==
    ~response.hasCandidate
        \/ (response.finishReason # "" /\ response.finishReason # "STOP")

\* promptFeedback.blockReason || candidate.finishReason || 'Unknown'
blockReason(response) ==
    IF response.blockReason # "" THEN response.blockReason
    ELSE IF response.hasCandidate /\ response.finishReason # "" THEN response.finishReason
    ELSE "Unknown"

\* candidate.safetyRatings || promptFeedback.safetyRatings
safetyRatings(response) ==
    IF response.hasCandidate /\ response.candidateRatings.present
    THEN response.candidateRatings
    ELSE response.feedbackRatings

BlockedFailure(response) ==
    Failure(500,
        <<"Image generation failed. Reason: ", blockReason(response), ".">>
            \o (IF safetyRatings(response).present
                THEN <<" Details: ">> \o JSONStringify(safetyRatings(response).list)
                ELSE <<>>))

EmptyFailure ==
    Failure(500, <<"Image generation failed: Received an empty response from the API.">>)

\* IsImagePart without its test of the media type.
IsImagePart_AnyInline(part) == part.inline /\ part.data # ""

\* The test of the parts loop for an image part.
IsImagePart(part) ==
    part.inline /\ part.data # "" /\ StartsWith(part.mimeType, <<"i", "m", "a", "g", "e", "/">>)

IsTextPart(part) == ~IsImagePart(part) /\ part.text # ""

\* Index of the part whose data the loop leaves in generatedImageData (each
\* image part overwrites the variable), or 0 when it stays null.
generatedImageIndex(parts) ==
    IF \E i \in 1..Len(parts) : IsImagePart(parts[i])
    THEN CHOOSE i \in 1..Len(parts) :
            IsImagePart(parts[i]) /\ \A j \in (i + 1)..Len(parts) : ~IsImagePart(parts[j])
    ELSE 0

\* The text the loop leaves in textResponse, "" when it stays null.
textResponse(parts) ==
    IF \E i \in 1..Len(parts) : IsTextPart(parts[i])
    THEN parts[CHOOSE i \in 1..Len(parts) :
            IsTextPart(parts[i]) /\ \A j \in (i + 1)..Len(parts) : ~IsTextPart(parts[j])].text
    ELSE ""

NoImageFailure(response) ==
    Failure(500,
        <<"Image generation failed: No image data received from API.">>
            \o (IF textResponse(response.parts) # ""
                THEN <<" Model response: \"", textResponse(response.parts), "\"">>
                ELSE IF response.blockReason # ""
                THEN <<" Reason potentially related to: ", response.blockReason, ".">>
                ELSE <<>>))

SaveFailure == Failure(500, <<"Failed to save generated image to server.">>)

\* fileExtension that takes the fallback every time.
fileExtension_AlwaysJpg(generatedMimeType) == <<"j", "p", "g">>

\* generatedMimeType.split('/')[1] || 'jpg'
fileExtension(generatedMimeType) ==
    LET sub == SplitSlashSecond(generatedMimeType)
    IN  IF sub.defined /\ sub.s # <<>> THEN sub.s ELSE <<"j", "p", "g">>

\* `${IMAGE_ROUTE_PREFIX}/${generationId}.${fileExtension}`
imageUrlRelative(generationId, ext) ==
    [route |-> IMAGE_ROUTE_PREFIX, generationId |-> generationId, fileExtension |-> ext]

(***************************************************************************)
(* Inputs: the request bodies and the outcomes of the remote call that     *)
(* the model draws from.                                                   *)
(***************************************************************************)
NoModelSettings ==
    [present |-> FALSE, gender |-> JSUndefined, bodyType |-> JSUndefined,
     ageRange |-> JSUndefined, ethnicity |-> JSUndefined, height |-> JSUndefined,
     hairStyle |-> JSUndefined, hairColor |-> JSUndefined, pose |-> JSUndefined,
     accessories |-> JSUndefined]

NoEnvironmentSettings ==
    [present |-> FALSE, backgroundPreset |-> JSUndefined, backgroundCustom |-> JSUndefined,
     lighting |-> JSUndefined, lensStyle |-> JSUndefined, timeOfDay |-> JSUndefined,
     weather |-> JSUndefined, season |-> JSUndefined, cameraAngle |-> JSUndefined]

\* Neutral attributes: every fragment of the subject clause is suppressed.
NeutralModel ==
    [NoModelSettings EXCEPT !.present = TRUE,
        !.gender = JSString(<<"M", "a", "l", "e">>), !.bodyType = JSString(<<"A", "v", "e", "r", "a", "g", "e">>),
        !.ageRange = JSString(<<"2", "6", "-", "3", "5">>), !.ethnicity = JSString(<<"A", "m", "b", "i", "g", "u", "o", "u", "s", " ", "E", "t", "h", "n", "i", "c", "i", "t", "y">>),
        !.height = JSString(<<"A", "v", "e", "r", "a", "g",
                              "e">>), !.accessories = JSString(<<"N", "o", "n", "e">>)]

\* ethnicity is a number.
IllTypedModel == [NeutralModel EXCEPT !.ethnicity = JSNumber]

\* modelSettings: {}
DefaultModel == [NoModelSettings EXCEPT !.present = TRUE]

\* Every fragment of the subject clause is produced.
DetailedModel ==
    [NoModelSettings EXCEPT !.present = TRUE,
        !.gender = JSString(<<"F", "e", "m", "a", "l", "e">>), !.bodyType = JSString(<<"A", "t", "h", "l", "e", "t", "i", "c">>),
        !.ageRange = JSString(<<"1", "8", "-", "2", "5">>), !.ethnicity = JSString(<<"D", "i", "v", "e", "r", "s", "e">>),
        !.height = JSString(<<"T", "a", "l", "l">>), !.hairStyle = JSString(<<"C", "u", "r", "l", "y">>),
        !.hairColor = JSString(<<"B", "l", "a", "c", "k">>), !.pose = JSString(<<"W", "a", "l", "k", "i", "n", "g">>),
        !.accessories = JSString(<<"G", "l", "a", "s", "s", "e", "s">>)]

\* Fields that the code guards with typeof hold numbers.
GuardedIllTypedModel ==
    [NeutralModel EXCEPT !.height = JSNumber, !.hairStyle = JSNumber, !.hairColor = JSNumber,
        !.pose = JSNumber, !.accessories = JSNumber]

\* environmentSettings: {}
DefaultEnvironment == [NoEnvironmentSettings EXCEPT !.present = TRUE]

CustomEnvironment ==
    [NoEnvironmentSettings EXCEPT !.present = TRUE,
        !.backgroundCustom = JSString(<<"a", " ", "r", "o", "o", "f", "t", "o", "p", " ", "a",
                                        "t", " ", "d", "u", "s", "k">>),
        !.lighting = JSString(<<"G", "o", "l", "d", "e", "n", " ", "H", "o", "u",
                                "r">>), !.timeOfDay = JSString(<<"D", "u", "s", "k">>),
        !.weather = JSString(<<"C", "l", "e", "a", "r">>), !.season = JSString(<<"S", "u", "m", "m", "e", "r">>)]

\* backgroundPreset is a number and season is given.
IllTypedEnvironment ==
    [NoEnvironmentSettings EXCEPT !.present = TRUE,
        !.backgroundPreset = JSNumber, !.season = JSString(<<"W", "i", "n", "t", "e", "r">>)]

\* backgroundPreset is a number and no season is given; lighting is a number.
GuardedIllTypedEnvironment ==
    [NoEnvironmentSettings EXCEPT !.present = TRUE,
        !.backgroundPreset = JSNumber, !.lighting = JSNumber]

NaturePreset ==
    [NoEnvironmentSettings EXCEPT !.present = TRUE,
        !.backgroundPreset = JSString(<<"o", "u", "t", "d", "o", "o", "r", "-", "n", "a", "t",
                                        "u", "r", "e">>)]

NoSettings ==
    [present |-> FALSE, modelSettings |-> NoModelSettings,
     environmentSettings |-> NoEnvironmentSettings]

Settings(ms, es) == [present |-> TRUE, modelSettings |-> ms, environmentSettings |-> es]

PngDataUri == JSString(<<"d", "a", "t", "a", ":", "i", "m", "a", "g", "e", "/", "p", "n", "g",
                         ";", "b", "a", "s", "e", "6", "4", ",", "i", "V", "B", "O">>)

JpegDataUri == JSString(<<"d", "a", "t", "a", ":", "i", "m", "a", "g", "e", "/", "j", "p", "e",
                          "g", ";", "b", "a", "s", "e", "6", "4", ",", "/", "9", "j", "/">>)

WebpDataUri == JSString(<<"d", "a", "t", "a", ":", "i", "m", "a", "g", "e", "/", "w", "e", "b",
                          "p", ";", "b", "a", "s", "e", "6", "4", ",", "U", "k", "l", "G">>)

GifDataUri == JSString(<<"d", "a", "t", "a", ":", "i", "m", "a", "g", "e", "/", "g", "i", "f",
                         ";", "b", "a", "s", "e", "6", "4", ",", "R", "0", "l", "G">>)

\* Matched by no part of the data-URI pattern after its prefix.
SvgDataUri == JSString(<<"d", "a", "t", "a", ":", "i", "m", "a", "g", "e", "/", "s", "v", "g",
                         "+", "x", "m", "l", ";", "b", "a", "s", "e", "6", "4", ",", "P", "H",
      "N", "2">>)

\* The request bodies a run draws from.
Bodies ==
    { \* accepted
      [settings |-> Settings(NeutralModel, NaturePreset), imageData |-> PngDataUri],
      \* invalid request shape
      [settings |-> NoSettings, imageData |-> PngDataUri],
      [settings |-> Settings(NoModelSettings, NaturePreset), imageData |-> PngDataUri],
      [settings |-> Settings(NeutralModel, NaturePreset), imageData |-> JSUndefined],
      [settings |-> Settings(NeutralModel, NaturePreset), imageData |-> JSNumber],
      [settings |-> Settings(NeutralModel, NaturePreset),
       imageData |-> JSString(<<"n", "o", "t", "-", "a", "-", "d", "a", "t", "a", "-", "u", "r",
                                "i">>)],
      \* malformed data URI
      [settings |-> Settings(NeutralModel, NaturePreset), imageData |-> SvgDataUri],
      \* an attribute that is not a string
      [settings |-> Settings(IllTypedModel, NaturePreset), imageData |-> PngDataUri],
      [settings |-> Settings(IllTypedModel, NaturePreset), imageData |-> SvgDataUri] }

\* The request bodies drawn from where only the handling of the request, up
\* to the call of the remote model, is followed: the bodies above, the other
\* image types, and attribute objects with fields missing, filled in, or
\* holding values that are not strings.
RequestBodies ==
    Bodies
    \cup { [settings |-> Settings(NeutralModel, NaturePreset), imageData |-> u] :
              u \in {JpegDataUri, WebpDataUri, GifDataUri} }
    \cup { [settings |-> Settings(DefaultModel, DefaultEnvironment), imageData |-> PngDataUri],
           [settings |-> Settings(DetailedModel, CustomEnvironment), imageData |-> PngDataUri],
           [settings |-> Settings(GuardedIllTypedModel, GuardedIllTypedEnvironment),
            imageData |-> PngDataUri],
           [settings |-> Settings([NeutralModel EXCEPT !.bodyType = JSNumber], NaturePreset),
            imageData |-> PngDataUri],
           [settings |-> Settings([NeutralModel EXCEPT !.ageRange = JSNumber], NaturePreset),
            imageData |-> PngDataUri],
           [settings |-> Settings(NeutralModel, IllTypedEnvironment),
            imageData |-> PngDataUri] }

\* The request bodies drawn from where only the construction of the prompt
\* is followed: attribute values at and off their neutral values, in other
\* letter case, empty and missing; the preset keys of the lookup table, an
\* empty, a missing and two unknown keys, with and without a season and a
\* custom background.
PromptBodies ==
    LET perturbed ==
            { NeutralModel, DefaultModel, DetailedModel,
              [NeutralModel EXCEPT !.bodyType = JSString(<<"C", "u", "r", "v", "y">>)],
              [NeutralModel EXCEPT !.bodyType = JSString(<<"A", "V", "E", "R", "A", "G", "E">>),
                  !.ageRange = JSString(<<"D", "e", "f", "a", "u", "l",
                                          "t">>), !.ethnicity = JSString(<<"U", "N", "S", "P", "E", "C", "I", "F", "I", "E", "D">>),
                  !.height = JSString(<<"A", "V", "E", "R", "A", "G",
                                        "E">>), !.accessories = JSString(<<"N", "O", "N", "E">>)],
              [NeutralModel EXCEPT !.bodyType = JSString(<<"d", "e", "f", "a", "u", "l", "t">>),
                  !.ageRange = JSString(<<"3", "6", "-", "4",
                                          "5">>), !.ethnicity = JSString(<<"A", "s", "i", "a", "n">>),
                  !.height = JSString(<<"P", "e", "t", "i", "t",
                                        "e">>), !.accessories = JSString(<<"H", "a", "t">>)],
              [NeutralModel EXCEPT !.bodyType = JSString(<<>>),
                  !.ageRange = JSString(<<>>), !.ethnicity = JSString(<<"d", "e", "f", "a", "u", "l", "t">>),
                  !.height = JSString(<<>>), !.accessories = JSString(<<>>)] }
        keys ==
            { <<"s", "t", "u", "d", "i", "o", "-", "w", "h", "i", "t", "e">>, <<"s", "t", "u", "d", "i", "o", "-", "g", "r", "a", "d", "i", "e", "n", "t">>, <<"i", "n", "-", "s", "t", "o", "r", "e">>, <<"l", "i", "f", "e", "s", "t", "y", "l", "e", "-", "h", "o", "m", "e">>,
              <<"l", "i", "f", "e", "s", "t", "y", "l", "e", "-", "o", "f", "f", "i", "c",
                "e">>, <<"o", "u", "t", "d", "o", "o", "r", "-", "u", "r", "b", "a", "n">>, <<"o", "u", "t", "d", "o", "o", "r", "-", "n", "a", "t", "u", "r", "e">>, <<"s", "e", "a", "s", "o", "n", "a", "l", "-", "s", "p", "r", "i", "n", "g">>,
              <<"s", "e", "a", "s", "o", "n", "a", "l", "-", "s", "u", "m", "m", "e",
                "r">>, <<"s", "e", "a", "s", "o", "n", "a", "l", "-", "f", "a", "l", "l">>, <<"s", "e", "a", "s", "o", "n", "a", "l", "-", "w", "i", "n", "t", "e", "r">>, <<"b", "e", "a", "c", "h">>,
              <<"p", "o", "s", "t", "-", "s", "e", "a", "s", "o", "n", "a", "l">>, <<>> }
        seasoned ==
            { <<"s", "t", "u", "d", "i", "o", "-", "w", "h", "i", "t", "e">>, <<"s", "e", "a", "s", "o", "n", "a", "l", "-", "w", "i", "n", "t", "e", "r">>, <<"b", "e", "a", "c", "h">>, <<"p", "o", "s", "t", "-", "s", "e", "a", "s", "o", "n", "a", "l">>, <<>> }
        presets ==
            { [DefaultEnvironment EXCEPT !.backgroundPreset = JSString(k)] : k \in keys }
            \cup { [DefaultEnvironment EXCEPT !.backgroundPreset = JSString(k),
                       !.season = JSString(<<"W", "i", "n", "t", "e", "r">>)] : k \in seasoned }
            \cup { DefaultEnvironment,
                   [DefaultEnvironment EXCEPT !.season = JSString(<<"F", "a", "l", "l">>)],
                   [DefaultEnvironment EXCEPT !.backgroundPreset = JSString(<<"i", "n", "-", "s", "t", "o", "r", "e">>),
                       !.season = JSString(<<>>)] }
        customs ==
            { [DefaultEnvironment EXCEPT
                  !.backgroundCustom = JSString(<<"M", "i", "n", "i", "m", "a", "l", "i", "s",
                                                  "t", " ", "l", "o", "f", "t", " ", "a", "p",
                        "a", "r", "t", "m", "e", "n", "t">>),
                  !.backgroundPreset = JSString(k), !.season = s] :
                k \in {<<"s", "t", "u", "d", "i", "o", "-", "w", "h", "i", "t",
                         "e">>, <<>>}, s \in {JSUndefined, JSString(<<"W", "i", "n", "t", "e", "r">>)} }
            \cup { [DefaultEnvironment EXCEPT !.backgroundCustom = JSString(<<>>),
                       !.backgroundPreset = JSString(<<"o", "u", "t", "d", "o", "o", "r", "-",
                                                       "u", "r", "b", "a", "n">>)],
                   CustomEnvironment }
    IN  { [settings |-> Settings(ms, NaturePreset), imageData |-> PngDataUri] :
             ms \in perturbed }
        \cup { [settings |-> Settings(NeutralModel, es), imageData |-> PngDataUri] :
                  es \in presets \cup customs }

NoBody == [settings |-> NoSettings, imageData |-> JSUndefined]

NoPart == [inline |-> FALSE, data |-> "", mimeType |-> <<>>, text |-> ""]

TextPart(t) == [NoPart EXCEPT !.text = t]

InlinePart(d, m) == [NoPart EXCEPT !.inline = TRUE, !.data = d, !.mimeType = m]

NoResponseBody ==
    [hasCandidate |-> FALSE, finishReason |-> "", candidateRatings |-> NoRatings,
     blockReason |-> "", feedbackRatings |-> NoRatings, parts |-> <<>>]

Candidate(reason, ps) ==
    [NoResponseBody EXCEPT !.hasCandidate = TRUE, !.finishReason = reason, !.parts = ps]

MediumRating ==
    [present |-> TRUE,
     list |-> << [category |-> "HARM_CATEGORY_HARASSMENT", probability |-> "MEDIUM"] >>]

HighRating ==
    [present |-> TRUE,
     list |-> << [category |-> "HARM_CATEGORY_DANGEROUS_CONTENT", probability |-> "HIGH"] >>]

\* The values model.generateContent(contents) resolves with (result.response).
Responses ==
    { \* prompt blocked: no candidate
      [NoResponseBody EXCEPT !.blockReason = "SAFETY"],
      \* candidate stopped for safety, yet carrying an image part
      [Candidate("SAFETY", <<InlinePart("img1", <<"i", "m", "a", "g", "e", "/", "p", "n", "g">>)>>)
          EXCEPT !.candidateRatings = HighRating],
      \* the same, with other safety ratings
      [Candidate("SAFETY", <<InlinePart("img1", <<"i", "m", "a", "g", "e", "/", "p", "n", "g">>)>>)
          EXCEPT !.candidateRatings = MediumRating],
      \* no content parts
      Candidate("STOP", <<>>),
      \* text only
      Candidate("STOP", <<TextPart("Here is a description.")>>),
      \* inline data that is not an image
      Candidate("STOP", <<InlinePart("doc1", <<"t", "e", "x", "t", "/", "p", "l", "a", "i",
                                               "n">>)>>),
      \* an image
      Candidate("STOP", <<InlinePart("img1", <<"i", "m", "a", "g", "e", "/", "p", "n", "g">>)>>),
      Candidate("STOP", <<InlinePart("img3", <<"i", "m", "a", "g", "e", "/", "w", "e", "b",
                                               "p">>)>>),
      \* an image and a caption, finish reason absent
      Candidate("", <<TextPart("Here is your image."), InlinePart("img1", <<"i", "m", "a", "g", "e", "/", "p", "n", "g">>)>>),
      \* two images
      Candidate("STOP", <<InlinePart("img1", <<"i", "m", "a", "g", "e", "/", "p", "n",
                                               "g">>), InlinePart("img2", <<"i", "m", "a", "g", "e", "/", "j", "p", "e", "g">>)>>) }

\* The messages of the errors model.generateContent(contents) rejects with.
ErrorMessages ==
    { <<"f", "e", "t", "c", "h", " ", "f", "a", "i", "l", "e", "d">>,
      <<"A", "P", "I", " ", "k", "e", "y", " ", "n", "o", "t", " ", "v", "a", "l", "i", "d">>,
      <<"g", "e", "n", "e", "r", "a", "t", "e", "C", "o", "n", "t", "e", "n", "t", ":", " ", "[",
        "4", "0", "0", " ", "B", "a", "d", " ", "R", "e", "q", "u", "e", "s", "t", "]", " ", "A",
            "P", "I", " ", "k", "e", "y", " ", "n", "o", "t", " ", "v", "a", "l", "i", "d">>,
      <<"P", "e", "r", "m", "i", "s", "s", "i", "o", "n", " ", "d", "e", "n", "i", "e", "d">> }

NoResult == [kind |-> "none", response |-> NoResponseBody, errorMessage |-> <<>>]

Resolved(response) == [kind |-> "response", response |-> response, errorMessage |-> <<>>]

Rejected(msg) == [kind |-> "error", response |-> NoResponseBody, errorMessage |-> msg]

(***************************************************************************)
(* The client: initial state of its stores (useGenerationStore,            *)
(* useGalleryStore, useSettingsStore).  null is the empty sequence for a   *)
(* string, NoUrl for a path, JSUndefined for the uploaded image.           *)
(***************************************************************************)
MAX_GALLERY_ITEMS == 20

\* The initial state of useGenerationStore.
initialGenerationState ==
    [uploadedImageData |-> JSUndefined, generatedImageRelativePath |-> NoUrl,
     generatedPrompt |-> <<>>, isLoading |-> FALSE, errorMessage |-> <<>>,
     uploadError |-> <<>>]

defaultEnvironmentSettings ==
    [backgroundPreset |-> <<"s", "t", "u", "d", "i", "o", "-", "w", "h", "i", "t",
                            "e">>, backgroundCustom |-> <<>>,
     lighting |-> <<"S", "t", "u", "d", "i", "o", " ", "S", "o", "f", "t", "b", "o",
                    "x">>, lensStyle |-> <<"F", "a", "s", "h", "i", "o", "n", " ", "M", "a", "g",
                                           "a", "z", "i", "n", "e", " ", "(", "S", "t", "a", "n",
           "d", "a", "r", "d", ")">>,
     timeOfDay |-> <<"M", "o", "r", "n", "i", "n", "g">>, weather |-> <<"C", "l", "e", "a", "r">>, season |-> <<"S", "p", "r", "i", "n", "g">>,
     cameraAngle |-> <<"E", "y", "e", " ", "L", "e", "v", "e", "l">>]

(***************************************************************************)
(* State.                                                                  *)
(***************************************************************************)
VARIABLES
    pc,            \* per request: "idle" (not yet received), "calling" (suspended
                   \* at await Promise.race), "done" (the handler returned),
                   \* "threw" (the handler's promise rejected)
    body,          \* per request: req.body
    prompt,        \* per request: the handler's local textPrompt
    res,           \* per request: the response sent, or NoResponse
    calls,         \* per request: the contents of its calls of
                   \* model.generateContent, in order
    remote,        \* per request: model.generateContent's promise:
                   \* "none", "pending" or "settled"
    timer,         \* per request: the setTimeout of the race:
                   \* "none", "armed" or "fired"
    result,        \* per request: what Promise.race delivered to the handler
    fsLog,         \* per request: its generationId and how its filesystem
                   \* calls ended
    imagesDir,     \* the files of IMAGES_DIR
    metadataFile,  \* the content of METADATA_FILE: the list of its records
    uuidCount,     \* number of identifiers uuidv4() has returned
    clock,         \* number of timestamps new Date() has returned
    faults,        \* number of filesystem calls that failed
    geminiApiKey,  \* process.env.GEMINI_API_KEY of the server process
    server,        \* the server process: "starting" (running the top level of
                   \* server.js), "listening" (app.listen was called) or
                   \* "exited" (process.exit(1))
    generationStore,      \* client: the state of useGenerationStore
    galleryItems,         \* client: the state of useGalleryStore
    environmentSettings,  \* client: environmentSettings of useSettingsStore
    now,           \* client: number of timestamps Date.now() has returned
    deleted,       \* client: number of deleteImage calls
    clicks,        \* client: number of clicks on Generate
    pending        \* client: number of handleGenerateClick invocations
                   \* suspended at await generateImage(payload)

\* The state of the /generate route and of its files.
routeVars ==
    <<pc, body, prompt, res, calls, remote, timer, result, fsLog, imagesDir, metadataFile,
      uuidCount, clock, faults>>

processVars == <<geminiApiKey, server>>

clientVars ==
    <<generationStore, galleryItems, environmentSettings, now, deleted, clicks, pending>>

vars == <<routeVars, processVars, clientVars>>

\* generationId is the identifier the request drew from uuidv4(), 0 if none.
NoFsLog ==
    [generationId |-> 0, imageWrite |-> "none", metadataRead |-> "none",
     metadataWrite |-> "none"]

\* fs.writeFileSync(METADATA_FILE, JSON.stringify([])) at startup: the log is
\* the list of its records, and holds none.
EmptyLog == <<>>

\* The state once the modules of the server and of the client are loaded,
\* but for the server process itself.
Loaded ==
    /\ pc = [r \in Requests |-> "idle"]
    /\ body = [r \in Requests |-> NoBody]
    /\ prompt = [r \in Requests |-> <<>>]
    /\ res = [r \in Requests |-> NoResponse]
    /\ calls = [r \in Requests |-> <<>>]
    /\ remote = [r \in Requests |-> "none"]
    /\ timer = [r \in Requests |-> "none"]
    /\ result = [r \in Requests |-> NoResult]
    /\ fsLog = [r \in Requests |-> NoFsLog]
    /\ imagesDir = {}
    /\ metadataFile = EmptyLog
    /\ uuidCount = 0
    /\ clock = 0
    /\ faults = 0
    /\ generationStore = initialGenerationState
    /\ galleryItems = <<>>
    /\ environmentSettings = defaultEnvironmentSettings
    /\ now = 0
    /\ deleted = 0
    /\ clicks = 0
    /\ pending = 0

\* The server was started with its credential and is listening.
Init ==
    /\ Loaded
    /\ geminiApiKey = JSString(<<"k", "e", "y">>)
    /\ server = "listening"

(***************************************************************************)
(* The route, up to its only suspension point.                             *)
(***************************************************************************)
\* contents = [ { text: textPrompt }, imagePart ]
Contents(text, m) == [text |-> text, mimeType |-> m.mimeType, data |-> m.base64Data]

\* BeforeAwait with a prompt that carries the uploaded image.
BeforeAwait_PromptNamesImage(b) ==
    IF Validation(b) = "pass" /\ ~ThrowsInPrompt(b.settings) /\ match(b.imageData.s).matched
    THEN [next |-> "calling", res |-> NoResponse,
          prompt |-> textPrompt(b.settings) \o b.imageData.s,
          calls |-> <<Contents(textPrompt(b.settings) \o b.imageData.s,
                               match(b.imageData.s))>>]
    ELSE [next |-> "done", res |-> ValidationFailure, prompt |-> <<>>, calls |-> <<>>]

\* Synchronous part of the handler for body b: the response it sends,
\* whether it goes on to call the remote model, and with what contents.
BeforeAwait(b) ==
    IF Validation(b) = "reject"
    THEN [next |-> "done", res |-> ValidationFailure, prompt |-> <<>>, calls |-> <<>>]
    ELSE IF Validation(b) = "throw"
    THEN [next |-> "threw", res |-> NoResponse, prompt |-> <<>>, calls |-> <<>>]
    ELSE IF ThrowsInPrompt(b.settings)
    THEN [next |-> "done", res |-> UnexpectedFailure, prompt |-> <<>>, calls |-> <<>>]
    ELSE IF ~match(b.imageData.s).matched
    THEN [next |-> "done", res |-> FormatFailure, prompt |-> textPrompt(b.settings),
          calls |-> <<>>]
    ELSE [next |-> "calling", res |-> NoResponse, prompt |-> textPrompt(b.settings),
          calls |-> <<Contents(textPrompt(b.settings), match(b.imageData.s))>>]

\* BeforeAwait over the bodies of the model.
HandlerStart == [b \in RequestBodies \cup PromptBodies |-> BeforeAwait(b)]

\* The handler runs on request r with body b until it returns, throws or
\* suspends.  When it throws outside its try block the answer is left to the
\* framework, which either sends its own error page or never answers.
Receive(r, b) ==
    /\ server = "listening"
    /\ pc[r] = "idle"
    /\ \A q \in Requests : q < r => pc[q] # "idle"
    /\ LET step == HandlerStart[b]
       IN  /\ pc' = [pc EXCEPT ![r] = step.next]
           /\ body' = [body EXCEPT ![r] = b]
           /\ prompt' = [prompt EXCEPT ![r] = step.prompt]
           /\ \E answer \in (IF step.next = "threw" THEN {NoResponse, FrameworkError}
                             ELSE {step.res}) :
                res' = [res EXCEPT ![r] = answer]
           /\ calls' = [calls EXCEPT ![r] = @ \o step.calls]
           /\ remote' = [remote EXCEPT ![r] = IF step.next = "calling" THEN "pending" ELSE @]
           /\ timer' = [timer EXCEPT ![r] = IF step.next = "calling" THEN "armed" ELSE @]
    /\ UNCHANGED <<result, fsLog, imagesDir, metadataFile, uuidCount, clock, faults>>
    /\ UNCHANGED <<processVars, clientVars>>

\* The timer of the race fires while the handler is suspended: the race
\* rejects with the timeout error and the catch block answers.
TimerFires(r) ==
    /\ pc[r] = "calling"
    /\ timer[r] = "armed"
    /\ timer' = [timer EXCEPT ![r] = "fired"]
    /\ result' = [result EXCEPT ![r] = Rejected(TimeoutErrorMessage)]
    /\ res' = [res EXCEPT ![r] = ApiErrorResponse(TimeoutErrorMessage)]
    /\ pc' = [pc EXCEPT ![r] = "done"]
    /\ UNCHANGED <<body, prompt, calls, remote, fsLog, imagesDir, metadataFile, uuidCount, clock, faults>>
    /\ UNCHANGED <<processVars, clientVars>>

\* RemoteRejects with the call issued once more instead of an answer.
RemoteRejects_Retry(r, msg) ==
    /\ pc[r] = "calling"
    /\ remote[r] = "pending"
    /\ Len(calls[r]) = 1
    /\ calls' = [calls EXCEPT ![r] = @ \o @]
    /\ UNCHANGED <<pc, body, prompt, res, remote, timer, result, fsLog, imagesDir,
                   metadataFile, uuidCount, clock, faults>>
    /\ UNCHANGED <<processVars, clientVars>>

\* The remote call rejects while the handler is suspended.
RemoteRejects(r, msg) ==
    /\ pc[r] = "calling"
    /\ remote[r] = "pending"
    /\ remote' = [remote EXCEPT ![r] = "settled"]
    /\ result' = [result EXCEPT ![r] = Rejected(msg)]
    /\ res' = [res EXCEPT ![r] = ApiErrorResponse(msg)]
    /\ pc' = [pc EXCEPT ![r] = "done"]
    /\ UNCHANGED <<body, prompt, calls, timer, fsLog, imagesDir, metadataFile, uuidCount, clock, faults>>
    /\ UNCHANGED <<processVars, clientVars>>

\* LateRemoteSettles with the handler resumed: the response is handled as if
\* the race were still open, and an answer is sent.
LateRemoteSettles_Resumes(r) ==
    /\ pc[r] = "done"
    /\ remote[r] = "pending"
    /\ remote' = [remote EXCEPT ![r] = "settled"]
    /\ res' = [res EXCEPT ![r] = EmptyFailure]
    /\ UNCHANGED <<pc, body, prompt, calls, timer, result, fsLog, imagesDir, metadataFile,
                   uuidCount, clock, faults>>
    /\ UNCHANGED <<processVars, clientVars>>

\* The remote call settles after the race was lost to the timer: the race is
\* already settled and no code of the handler runs.
LateRemoteSettles(r) ==
    /\ pc[r] = "done"
    /\ remote[r] = "pending"
    /\ remote' = [remote EXCEPT ![r] = "settled"]
    /\ UNCHANGED <<pc, body, prompt, res, calls, timer, result, fsLog, imagesDir, metadataFile,
                   uuidCount, clock, faults>>
    /\ UNCHANGED <<processVars, clientVars>>


(***************************************************************************)
(* Persistence (steps 5a and 5b of the route).                             *)
(***************************************************************************)
\* How a synchronous filesystem call ends: it returns, or it throws and
\* leaves the file as it was.
ImageWriteOutcomes == {"ok", "failed"}

ReadOutcomes == {"ok", "failed"}

MetadataWriteOutcomes == {"ok", "failed"}

\* The ways steps 5a and 5b can end: the metadata log is not touched when the
\* image write failed.
FsOutcomes ==
    {<<iw, "none", "none">> : iw \in ImageWriteOutcomes \ {"ok"}}
        \cup {<<"ok", mr, mw>> : mr \in ReadOutcomes, mw \in MetadataWriteOutcomes}

FaultsOf(iw, mr, mw) ==
    (IF iw = "failed" THEN 1 ELSE 0) + (IF mr = "failed" THEN 1 ELSE 0)
        + (IF mw = "failed" THEN 1 ELSE 0)

\* The file fs.writeFileSync(imagePath, imageBuffer) leaves in IMAGES_DIR.
ImageFile(generationId, ext, data) ==
    [generationId |-> generationId, fileExtension |-> ext, content |-> data]

WriteImage(dir, generationId, ext, data, outcome) ==
    IF outcome = "failed" THEN dir
    ELSE dir \cup {ImageFile(generationId, ext, data)}

\* metadataRecord without the prompt.
metadataRecord_PromptDropped(generationId, createdAt, settings, text, url) ==
    [generationId |-> generationId, createdAt |-> createdAt, settingsUsed |-> settings,
     promptUsed |-> <<>>, imagePath |-> url, status |-> "completed"]

metadataRecord(generationId, createdAt, settings, text, url) ==
    [generationId |-> generationId, createdAt |-> createdAt, settingsUsed |-> settings,
     promptUsed |-> text, imagePath |-> url, status |-> "completed"]

\* ReadMetadata that never returns the records of the file.
ReadMetadata_AlwaysEmpty(file, outcome) == <<>>

\* The inner try/catch: readFileSync and JSON.parse give the records of the
\* file (which only this route writes, as a JSON array); a failure gives the
\* empty list.
ReadMetadata(file, outcome) == IF outcome = "failed" THEN <<>> ELSE file

\* push instead of unshift: the record goes to the end of the list.
Unshift_Push(metadata, record) == metadata \o <<record>>

\* metadata.unshift(metadataRecord)
Unshift(metadata, record) == <<record>> \o metadata

\* fs.writeFileSync(METADATA_FILE, JSON.stringify(metadata, null, 2), 'utf8')
WriteMetadata(file, metadata, outcome) ==
    IF outcome = "failed" THEN file ELSE metadata

\* A catch block of the image write that only logs and falls through.
ReturnsOnWriteError_Never(iw) == FALSE

\* The catch block of the image write answers and returns.
ReturnsOnWriteError(iw) == iw # "ok"

\* An answer that reports a failed metadata write to the caller.
AnswerAfterSave_FailOnMetadataWrite(url, text, mr, mw) ==
    IF mw = "failed"
    THEN Failure(500, <<"Failed to update metadata.">>)
    ELSE Success(url, text)

\* An answer that reports a failed metadata read to the caller.
AnswerAfterSave_FailOnMetadataRead(url, text, mr, mw) ==
    IF mr = "failed"
    THEN Failure(500, <<"Failed to update metadata.">>)
    ELSE Success(url, text)

\* The response after a successful image write: a metadata failure is only
\* logged.
AnswerAfterSave(url, text, mr, mw) == Success(url, text)

\* Steps 5a to 5c for the image part the loop selected.
SaveAndAnswer(r, part, iw, mr, mw) ==
    LET generationId == uuidCount + 1
        ext == fileExtension(part.mimeType)
        url == imageUrlRelative(generationId, ext)
        record == metadataRecord(generationId, clock + 1, body[r].settings, prompt[r], url)
    IN  /\ uuidCount' = generationId
        /\ imagesDir' = WriteImage(imagesDir, generationId, ext, part.data, iw)
        /\ faults' = faults + FaultsOf(iw, mr, mw)
        /\ IF ReturnsOnWriteError(iw)
           THEN /\ res' = [res EXCEPT ![r] = SaveFailure]
                /\ fsLog' = [fsLog EXCEPT ![r] =
                      [NoFsLog EXCEPT !.generationId = generationId, !.imageWrite = iw]]
                /\ UNCHANGED <<metadataFile, clock>>
           ELSE /\ clock' = clock + 1
                /\ metadataFile' =
                      WriteMetadata(metadataFile,
                                    Unshift(ReadMetadata(metadataFile, mr), record), mw)
                /\ res' = [res EXCEPT ![r] = AnswerAfterSave(url, prompt[r], mr, mw)]
                /\ fsLog' = [fsLog EXCEPT ![r] =
                      [generationId |-> generationId, imageWrite |-> iw,
                       metadataRead |-> mr, metadataWrite |-> mw]]

\* The remote call resolves while the handler is suspended: the handler
\* resumes and runs to its end without suspending again.
RemoteResolves(r, response) ==
    /\ pc[r] = "calling"
    /\ remote[r] = "pending"
    /\ remote' = [remote EXCEPT ![r] = "settled"]
    /\ result' = [result EXCEPT ![r] = Resolved(response)]
    /\ pc' = [pc EXCEPT ![r] = "done"]
    /\ IF IsBlocked(response) \/ Len(response.parts) = 0
          \/ generatedImageIndex(response.parts) = 0
       THEN /\ res' = [res EXCEPT ![r] =
                  IF IsBlocked(response) THEN BlockedFailure(response)
                  ELSE IF Len(response.parts) = 0 THEN EmptyFailure
                  ELSE NoImageFailure(response)]
            /\ UNCHANGED <<fsLog, imagesDir, metadataFile, uuidCount, clock, faults>>
       ELSE \E o \in FsOutcomes :
                /\ faults + FaultsOf(o[1], o[2], o[3]) <= MaxFaults
                /\ SaveAndAnswer(r, response.parts[generatedImageIndex(response.parts)],
                                 o[1], o[2], o[3])
    /\ UNCHANGED <<body, prompt, calls, timer>>
    /\ UNCHANGED <<processVars, clientVars>>

Next ==
    \/ \E r \in Requests, b \in Bodies : Receive(r, b)
    \/ \E r \in Requests : TimerFires(r)
    \/ \E r \in Requests, msg \in ErrorMessages : RemoteRejects(r, msg)
    \/ \E r \in Requests, response \in Responses : RemoteResolves(r, response)
    \/ \E r \in Requests : LateRemoteSettles(r)

Spec == Init /\ [][Next]_vars

\* setTimeout fires its callback: a request suspended at the race does not
\* wait forever.
FairSpec == Spec /\ \A r \in Requests : WF_vars(TimerFires(r))

(***************************************************************************)
(* The handling of requests alone: bodies are drawn from RequestBodies,    *)
(* and of the remote call only one resolution with an image is followed,   *)
(* besides the timeout.                                                    *)
(***************************************************************************)
PlainImage == Candidate("STOP", <<InlinePart("img1", <<"i", "m", "a", "g", "e", "/", "p", "n",
                                                       "g">>)>>)

RequestNext ==
    \/ \E r \in Requests, b \in RequestBodies : Receive(r, b)
    \/ \E r \in Requests : TimerFires(r)
    \/ \E r \in Requests : RemoteResolves(r, PlainImage)

RequestSpec == Init /\ [][RequestNext]_vars

(***************************************************************************)
(* The construction of the prompt alone: bodies are drawn from             *)
(* PromptBodies and the handler is followed up to its suspension.          *)
(***************************************************************************)
PromptNext == \E r \in Requests, b \in PromptBodies : Receive(r, b)

PromptSpec == Init /\ [][PromptNext]_vars

(***************************************************************************)
(* The start of the server process: the top level of server.js.            *)
(***************************************************************************)
\* Startup without the test of the credential.
Startup_NoKeyCheck(setup) ==
    /\ server = "starting"
    /\ server' = IF setup = "failed" THEN "exited" ELSE "listening"
    /\ UNCHANGED <<geminiApiKey, routeVars, clientVars>>

\* The top level runs to its end: the directories and the metadata file are
\* set up (a failure ends the process), the credential is read (its absence
\* ends the process), the route is registered and app.listen is called.  A
\* metadata file that exists is left as it is.
Startup(setup) ==
    /\ server = "starting"
    /\ server' = IF setup = "failed" \/ ~Truthy(geminiApiKey) THEN "exited" ELSE "listening"
    /\ UNCHANGED <<geminiApiKey, routeVars, clientVars>>

\* The process is started with GEMINI_API_KEY unset, empty or set.
StartupInit ==
    /\ Loaded
    /\ geminiApiKey \in {JSUndefined, JSString(<<>>), JSString(<<"k", "e", "y">>)}
    /\ server = "starting"

StartupNext ==
    \/ \E setup \in {"ok", "failed"} : Startup(setup)
    \/ \E r \in Requests, b \in Bodies : Receive(r, b)
    \/ \E r \in Requests : TimerFires(r)

StartupSpec == StartupInit /\ [][StartupNext]_vars


(***************************************************************************)
(* The client: the gallery store (galleryStore.ts).                        *)
(***************************************************************************)
\* addImage with the new item put last.
addImage_Append(items, relativePath, timestamp) ==
    LET newItems == items \o <<[relativePath |-> relativePath, timestamp |-> timestamp]>>
    IN  SubSeq(newItems, 1,
               IF Len(newItems) < MAX_GALLERY_ITEMS THEN Len(newItems)
               ELSE MAX_GALLERY_ITEMS)

\* [newItem, ...currentItems].slice(0, MAX_GALLERY_ITEMS)
addImage(items, relativePath, timestamp) ==
    LET newItems == <<[relativePath |-> relativePath, timestamp |-> timestamp]>> \o items
    IN  SubSeq(newItems, 1,
               IF Len(newItems) < MAX_GALLERY_ITEMS THEN Len(newItems)
               ELSE MAX_GALLERY_ITEMS)

\* galleryItems.filter(item => item.relativePath !== relativePath)
deleteImage(items, relativePath) ==
    SelectSeq(items, LAMBDA item : item.relativePath # relativePath)

\* A call of addImage with the path of a newly generated image (the server
\* names every image after a fresh identifier); Date.now() is the number of
\* the call.
AddImage ==
    /\ now < MaxAdds
    /\ galleryItems' = addImage(galleryItems, imageUrlRelative(now + 1, <<"p", "n", "g">>), now + 1)
    /\ now' = now + 1
    /\ UNCHANGED <<generationStore, environmentSettings, deleted, clicks, pending>>
    /\ UNCHANGED <<routeVars, processVars>>

\* Gallery.handleDeleteClick, confirmed, on the item at position i.
DeleteImage(i) ==
    /\ deleted < MaxDeletes
    /\ i \in 1..Len(galleryItems)
    /\ galleryItems' = deleteImage(galleryItems, galleryItems[i].relativePath)
    /\ deleted' = deleted + 1
    /\ UNCHANGED <<generationStore, environmentSettings, now, clicks, pending>>
    /\ UNCHANGED <<routeVars, processVars>>

\* App.handleClearGallery; the button is shown while the gallery has items.
ClearGallery ==
    /\ Len(galleryItems) > 0
    /\ galleryItems' = <<>>
    /\ UNCHANGED <<generationStore, environmentSettings, now, deleted, clicks, pending>>
    /\ UNCHANGED <<routeVars, processVars>>

GalleryNext ==
    \/ AddImage
    \/ \E i \in 1..MAX_GALLERY_ITEMS : DeleteImage(i)
    \/ ClearGallery

GallerySpec == Init /\ [][GalleryNext]_vars

(***************************************************************************)
(* The client: App.tsx with the generation store and services/api.ts.      *)
(***************************************************************************)
\* clearGenerationState of useGenerationStore.
clearGenerationState(state) ==
    [state EXCEPT !.generatedImageRelativePath = NoUrl, !.generatedPrompt = <<>>,
                  !.isLoading = FALSE, !.errorMessage = <<>>]

\* const isGenerateDisabled = !uploadedImageData || isLoading
isGenerateDisabled ==
    ~Truthy(generationStore.uploadedImageData) \/ generationStore.isLoading

\* generateImage(payload) for the answer of the backend: what it returns
\* (ok) or the message of the Error it throws.  An answer that never arrives
\* makes fetch reject.
generateImage(answer) ==
    IF ~answer.answered
    THEN [ok |-> FALSE, imageUrl |-> NoUrl, promptUsed |-> <<>>,
          message |-> <<"Failed to fetch">>]
    ELSE IF answer.status # 200
    THEN [ok |-> FALSE, imageUrl |-> NoUrl, promptUsed |-> <<>>,
          message |-> IF answer.json /\ ~answer.success
                      THEN answer.message
                      ELSE <<"API request failed with status ">> \o Decimal(answer.status)]
    ELSE IF answer.json /\ answer.success
    THEN [ok |-> TRUE, imageUrl |-> answer.imageUrl, promptUsed |-> answer.promptUsed,
          message |-> <<>>]
    ELSE [ok |-> FALSE, imageUrl |-> NoUrl, promptUsed |-> <<>>,
          message |-> <<"Received an unexpected response format from the server.">>]

\* The answers of the backend a pending call can get: a success naming a
\* new image, failure envelopes, the framework's error page, or none.
BackendAnswers ==
    { Success(imageUrlRelative(now + 1, <<"p", "n",
                                          "g">>), <<"CREATE A PHOTOREALISTIC IMAGE of ">>),
      ValidationFailure,
      ApiErrorResponse(TimeoutErrorMessage),
      FrameworkError,
      NoResponse }

\* App.handleImageUpload(imageData), null being JSUndefined.
handleImageUpload(imageData) ==
    /\ generationStore' =
          LET uploaded == [generationStore EXCEPT !.uploadedImageData = imageData,
                              !.errorMessage = <<>>, !.uploadError = <<>>]
          IN  IF Truthy(imageData) THEN clearGenerationState(uploaded) ELSE uploaded
    /\ UNCHANGED <<galleryItems, environmentSettings, now, deleted, clicks, pending>>
    /\ UNCHANGED <<routeVars, processVars>>

\* A click on the Generate button (enabled unless isGenerateDisabled):
\* App.handleGenerateClick up to await generateImage(payload).
handleGenerateClick ==
    /\ ~isGenerateDisabled
    /\ clicks < MaxClicks
    /\ clicks' = clicks + 1
    /\ IF ~Truthy(generationStore.uploadedImageData)
       THEN /\ generationStore' =
                  [generationStore EXCEPT !.errorMessage =
                      <<"Please upload an image and ensure all settings are selected.">>]
            /\ UNCHANGED pending
       ELSE /\ generationStore' =
                  clearGenerationState(
                      [generationStore EXCEPT !.isLoading = TRUE, !.errorMessage = <<>>])
            /\ pending' = pending + 1
    /\ UNCHANGED <<galleryItems, environmentSettings, now, deleted>>
    /\ UNCHANGED <<routeVars, processVars>>

\* generateImage settles for one suspended handleGenerateClick, which runs
\* to its end: the try block after the await, or the catch block, and the
\* finally block.
GenerateSettles(answer) ==
    /\ pending > 0
    /\ pending' = pending - 1
    /\ LET outcome == generateImage(answer)
       IN  IF outcome.ok
           THEN /\ generationStore' =
                      [generationStore EXCEPT
                          !.generatedImageRelativePath = outcome.imageUrl,
                          !.generatedPrompt = outcome.promptUsed,
                          !.isLoading = FALSE]
                /\ galleryItems' = addImage(galleryItems, outcome.imageUrl, now + 1)
                /\ now' = now + 1
           ELSE /\ generationStore' =
                      [generationStore EXCEPT !.errorMessage = outcome.message,
                                              !.isLoading = FALSE]
                /\ UNCHANGED <<galleryItems, now>>
    /\ UNCHANGED <<environmentSettings, deleted, clicks>>
    /\ UNCHANGED <<routeVars, processVars>>

\* App.handleThumbnailClick on the item at position i of the gallery.
handleThumbnailClick(i) ==
    /\ i \in 1..Len(galleryItems)
    /\ generationStore' =
          [generationStore EXCEPT
              !.generatedImageRelativePath = galleryItems[i].relativePath,
              !.generatedPrompt = <<>>, !.errorMessage = <<>>]
    /\ UNCHANGED <<galleryItems, environmentSettings, now, deleted, clicks, pending>>
    /\ UNCHANGED <<routeVars, processVars>>

ClientNext ==
    \/ \E imageData \in {JSUndefined, PngDataUri} : handleImageUpload(imageData)
    \/ handleGenerateClick
    \/ \E answer \in BackendAnswers : GenerateSettles(answer)
    \/ \E i \in 1..MaxClicks : handleThumbnailClick(i)

ClientSpec == Init /\ [][ClientNext]_vars

(***************************************************************************)
(* The client: EnvironmentSettings.tsx on the settings store.              *)
(***************************************************************************)
\* handleChange that leaves the other background field as it is.
handleChange_KeepsOther(name, value) ==
    /\ environmentSettings' = [environmentSettings EXCEPT ![name] = value]
    /\ UNCHANGED <<generationStore, galleryItems, now, deleted, clicks, pending>>
    /\ UNCHANGED <<routeVars, processVars>>

\* A change event of the select or input called name with the given value.
\* (The disabled attributes of the preset select and of the custom input
\* only take events away.)
handleChange(name, value) ==
    /\ environmentSettings' =
          IF name = "backgroundPreset"
          THEN [environmentSettings EXCEPT
                   !.backgroundPreset = value,
                   !.backgroundCustom = IF value # <<>> THEN <<>> ELSE @]
          ELSE IF name = "backgroundCustom"
          THEN [environmentSettings EXCEPT
                   !.backgroundCustom = value,
                   !.backgroundPreset = IF value # <<>> THEN <<>> ELSE @]
          ELSE [environmentSettings EXCEPT ![name] = value]
    /\ UNCHANGED <<generationStore, galleryItems, now, deleted, clicks, pending>>
    /\ UNCHANGED <<routeVars, processVars>>

\* A choice in one of the visual option selectors.
handleVisualOptionChange(name, value) ==
    /\ environmentSettings' = [environmentSettings EXCEPT ![name] = value]
    /\ UNCHANGED <<generationStore, galleryItems, now, deleted, clicks, pending>>
    /\ UNCHANGED <<routeVars, processVars>>

\* The values the events of the model carry, by the name of the control.
OptionValues ==
    [backgroundPreset |-> {<<>>, <<"s", "t", "u", "d", "i", "o", "-", "w", "h", "i", "t",
                                   "e">>, <<"i", "n", "-", "s", "t", "o", "r", "e">>, <<"s", "e", "a", "s", "o", "n", "a", "l", "-", "w", "i", "n", "t", "e", "r">>},
     backgroundCustom |-> {<<>>, <<"M", "i", "n", "i", "m", "a", "l", "i", "s", "t", " ", "l",
                                   "o", "f", "t", " ", "a", "p", "a", "r", "t", "m", "e", "n",
           "t">>},
     season |-> {<<"S", "p", "r", "i", "n", "g">>, <<"W", "i", "n", "t", "e", "r">>},
     lighting |-> {<<"S", "t", "u", "d", "i", "o", " ", "S", "o", "f", "t", "b", "o",
                     "x">>, <<"N", "a", "t", "u", "r", "a", "l", " ", "D", "a", "y", "l", "i",
                              "g", "h", "t">>},
     cameraAngle |-> {<<"E", "y", "e", " ", "L", "e", "v", "e", "l">>, <<"L", "o", "w", " ", "A", "n", "g", "l", "e">>},
     timeOfDay |-> {<<"M", "o", "r", "n", "i", "n", "g">>, <<"N", "i", "g", "h", "t">>},
     weather |-> {<<"C", "l", "e", "a", "r">>, <<"R", "a", "i", "n", "y">>}]

SettingsNext ==
    \/ \E name \in {"backgroundPreset", "backgroundCustom", "season", "lighting",
                    "cameraAngle"} :
          \E value \in OptionValues[name] : handleChange(name, value)
    \/ \E name \in {"timeOfDay", "weather"} :
          \E value \in OptionValues[name] : handleVisualOptionChange(name, value)

SettingsSpec == Init /\ [][SettingsNext]_vars


(***************************************************************************)
(* Vocabulary of the properties.                                           *)
(***************************************************************************)
\* The handler has returned or thrown for request r.
Handled(r) == pc[r] \in {"done", "threw"}

NonEmptyMessage(m) == \E i \in 1..Len(m) : m[i] # ""

\* The failure shape of the JSON envelope: {success: false, message}.
IsFailureEnvelope(x) ==
    x.answered /\ x.json /\ ~x.success /\ NonEmptyMessage(x.message)

\* The success shape of the JSON envelope: {success: true, imageUrl, promptUsed}.
IsSuccessEnvelope(x) == x.answered /\ x.json /\ x.success

\* The remote call resolved with a response for request r.
GotResponse(r) == result[r].kind = "response"

\* A response that finished normally: it has a candidate whose finish reason
\* is absent or STOP.
FinishedNormally(response) ==
    response.hasCandidate /\ response.finishReason \in {"", "STOP"}

\* Some part carries non-empty inline data with an image media type.
HasImagePart(response) ==
    \E i \in 1..Len(response.parts) :
        /\ response.parts[i].inline
        /\ response.parts[i].data # ""
        /\ StartsWith(response.parts[i].mimeType, <<"i", "m", "a", "g", "e", "/">>)

ImageWriteFailed(r) == fsLog[r].imageWrite = "failed"

MetadataReadFailed(r) == fsLog[r].metadataRead = "failed"

MetadataWriteFailed(r) == fsLog[r].metadataWrite = "failed"

\* A file of the content directory has the name the URL points to.
FileExists(url) ==
    \E f \in imagesDir :
        f.generationId = url.generationId /\ f.fileExtension = url.fileExtension

\* The seven failure kinds, told from the request and from what happened to it.
InvalidRequestShape(r) ==
    LET b == body[r]
    IN  \/ ~b.settings.present
        \/ ~b.settings.modelSettings.present
        \/ ~b.settings.environmentSettings.present
        \/ b.imageData.t # "string"
        \/ ~StartsWith(b.imageData.s, <<"d", "a", "t", "a", ":", "i", "m", "a", "g", "e", "/">>)

MalformedDataUri(r) ==
    body[r].imageData.t = "string" /\ ~match(body[r].imageData.s).matched

BlockedResponse(r) == GotResponse(r) /\ ~FinishedNormally(result[r].response)

TimedOut(r) == timer[r] = "fired"

ImagelessResponse(r) ==
    GotResponse(r) /\ FinishedNormally(result[r].response)
        /\ ~HasImagePart(result[r].response)

TransportError(r) == result[r].kind = "error" /\ ~TimedOut(r)

InFailureKind(r) ==
    \/ InvalidRequestShape(r)
    \/ MalformedDataUri(r)
    \/ BlockedResponse(r)
    \/ TimedOut(r)
    \/ ImagelessResponse(r)
    \/ TransportError(r)
    \/ ImageWriteFailed(r)

(***************************************************************************)
(* C1.  For each of the seven failure kinds (invalid request shape,        *)
(* malformed data URI, blocked response, timeout, empty or image-less      *)
(* response, transport error, image write failure) the handler answers     *)
(* with success=false and a non-empty message; it never answers with       *)
(* success=true and never leaves the request without an answer.            *)
(* Violated: a body whose imageData is present but not a string is an      *)
(* invalid request shape, and the validation throws on it before the try   *)
(* block, so the route sends no envelope.                                  *)
(***************************************************************************)
C1_FailureEnvelope ==
    \A r \in Requests :
        Handled(r) /\ InFailureKind(r) => IsFailureEnvelope(res[r])

(***************************************************************************)
(* C2.  A request that passed validation and decoding is eventually        *)
(* answered even if the remote call never settles; when the timer fires    *)
(* first the answer is the failure "The request took too long." with       *)
(* status 504, which differs from the status of a validation failure.      *)
(***************************************************************************)
C2_TimeoutAnswers ==
    /\ \A r \in Requests : (pc[r] = "calling") ~> res[r].answered
    /\ [](\A r \in Requests :
            TimedOut(r) =>
                /\ IsFailureEnvelope(res[r])
                /\ res[r].message = <<"Image generation failed: The request took too long.">>
                /\ res[r].status = 504
                /\ res[r].status # ValidationFailure.status)

\* The timer fired for a request whose remote call has still not settled.
C2_Witness ==
    \E r \in Requests :
        TimedOut(r) /\ remote[r] = "pending" /\ res[r].answered /\ res[r].status = 504

(***************************************************************************)
(* C3 (as stated).  For a normally finished response with at least one     *)
(* part the request succeeds if and only if some part carries inline data  *)
(* with an image media type.                                               *)
(* Violated: with an image part the request still fails when the image     *)
(* file cannot be written.                                                 *)
(***************************************************************************)
C3_Original ==
    \A r \in Requests :
        Handled(r) /\ GotResponse(r) /\ FinishedNormally(result[r].response)
            /\ Len(result[r].response.parts) >= 1
        => (res[r].success <=> HasImagePart(result[r].response))

(***************************************************************************)
(* C3 (amended).  For a normally finished response with at least one part  *)
(* the request succeeds if and only if some part carries inline data with  *)
(* an image media type and the image file write does not fail; a response  *)
(* whose parts carry only text is answered with a failure.                 *)
(***************************************************************************)
C3_ImageDecidesSuccess ==
    \A r \in Requests :
        Handled(r) /\ GotResponse(r) /\ FinishedNormally(result[r].response)
            /\ Len(result[r].response.parts) >= 1
        => /\ res[r].success <=>
                (HasImagePart(result[r].response) /\ ~ImageWriteFailed(r))
           /\ ~HasImagePart(result[r].response) => IsFailureEnvelope(res[r])

\* A response with a caption and an image succeeded, and a response with
\* text only failed.
C3_Witness ==
    \E r, q \in Requests :
        /\ GotResponse(r) /\ res[r].success
        /\ \E i \in 1..Len(result[r].response.parts) :
                result[r].response.parts[i].text # ""
        /\ GotResponse(q) /\ FinishedNormally(result[q].response)
        /\ Len(result[q].response.parts) >= 1
        /\ \A i \in 1..Len(result[q].response.parts) :
                ~result[q].response.parts[i].inline
        /\ IsFailureEnvelope(res[q])

(***************************************************************************)
(* C4.  A response with no candidate, or whose candidate has a finish      *)
(* reason other than STOP, is answered with the Blocked failure whatever   *)
(* its parts contain: no image file is written, no metadata record is      *)
(* made and no success response is sent for it.                            *)
(***************************************************************************)
C4_BlockedNeverSaved ==
    \A r \in Requests :
        GotResponse(r)
            /\ (\/ ~result[r].response.hasCandidate
                \/ result[r].response.finishReason \notin {"", "STOP"})
        => /\ IsFailureEnvelope(res[r])
           /\ res[r].message[1] = "Image generation failed. Reason: "
           /\ fsLog[r] = NoFsLog
           /\ \A f \in imagesDir : \E q \in Requests :
                q # r /\ fsLog[q].generationId = f.generationId
           /\ \A i \in 1..Len(metadataFile) : \E q \in Requests :
                q # r /\ fsLog[q].generationId = metadataFile[i].generationId

\* A candidate that stopped for SAFETY and carried an image part was refused.
C4_Witness ==
    \E r \in Requests :
        /\ GotResponse(r)
        /\ result[r].response.finishReason = "SAFETY"
        /\ HasImagePart(result[r].response)
        /\ IsFailureEnvelope(res[r])
        /\ imagesDir = {}

(***************************************************************************)
(* C5.  If writing the image file fails, the request is answered with a    *)
(* failure although the remote call succeeded, no metadata record is       *)
(* appended for it and the metadata log is left unchanged.                 *)
(***************************************************************************)
C5_WriteFailureLeavesLog ==
    [][\A r \in Requests :
        ~ImageWriteFailed(r) /\ ImageWriteFailed(r)'
        => /\ GotResponse(r)' /\ HasImagePart(result'[r].response)
           /\ IsFailureEnvelope(res'[r])
           /\ metadataFile' = metadataFile
           /\ \A i \in 1..Len(metadataFile') :
                metadataFile'[i].generationId # fsLog'[r].generationId]_vars

\* The image write of a request failed while the log held a record of an
\* earlier request.
C5_Witness ==
    \E r \in Requests :
        /\ ImageWriteFailed(r)
        /\ IsFailureEnvelope(res[r])
        /\ Len(metadataFile) >= 1

(***************************************************************************)
(* C6.  When the remote call returns a normally finished response that     *)
(* contains an image part, the request is answered with a failure only if  *)
(* the image file write fails.                                             *)
(***************************************************************************)
C6_OnlyWriteFailureOverrides ==
    \A r \in Requests :
        GotResponse(r) /\ FinishedNormally(result[r].response)
            /\ HasImagePart(result[r].response)
        => /\ res[r].answered
           /\ ~res[r].success => ImageWriteFailed(r)

\* An image arrived, the metadata update failed, and the answer is a success.
C6_Witness ==
    \E r \in Requests :
        /\ GotResponse(r) /\ HasImagePart(result[r].response)
        /\ MetadataWriteFailed(r)
        /\ IsSuccessEnvelope(res[r])

(***************************************************************************)
(* C7.  If reading or writing the metadata log fails after the image file  *)
(* has been written, the request is still answered with success=true and   *)
(* its imageUrl, and the written image file stays in the content           *)
(* directory.                                                              *)
(***************************************************************************)
C7_MetadataFailureKeepsSuccess ==
    \A r \in Requests :
        MetadataReadFailed(r) \/ MetadataWriteFailed(r)
        => /\ IsSuccessEnvelope(res[r])
           /\ res[r].status = 200
           /\ res[r].imageUrl = imageUrlRelative(fsLog[r].generationId,
                                                 res[r].imageUrl.fileExtension)
           /\ FileExists(res[r].imageUrl)

\* The read of the log failed for a request that was answered with success.
C7_Witness ==
    \E r \in Requests :
        MetadataReadFailed(r) /\ IsSuccessEnvelope(res[r]) /\ FileExists(res[r].imageUrl)

\* Number of requests answered with success.
SuccessCount == Cardinality({r \in Requests : res[r].success})

NoMetadataFailure ==
    \A r \in Requests : ~MetadataReadFailed(r) /\ ~MetadataWriteFailed(r)

\* The records are in the order of their creation, newest first, and no two
\* have the same generationId.
NewestFirst(records) ==
    \A i, j \in 1..Len(records) :
        i < j => /\ records[i].createdAt > records[j].createdAt
                 /\ records[i].generationId # records[j].generationId

EveryRecordHasItsFile(records) ==
    \A i \in 1..Len(records) :
        /\ records[i].imagePath.route = IMAGE_ROUTE_PREFIX
        /\ FileExists(records[i].imagePath)

(***************************************************************************)
(* C8 (as stated).  Starting from an empty log, after N requests have been *)
(* answered with success the log holds exactly N records, newest first,    *)
(* with pairwise distinct generationId, each naming an existing file.      *)
(* Violated: a request is answered with success also when the update of    *)
(* the log failed, and its record is then missing.                         *)
(***************************************************************************)
C8_Original ==
    /\ Len(metadataFile) = SuccessCount
    /\ NewestFirst(metadataFile)
    /\ EveryRecordHasItsFile(metadataFile)

(***************************************************************************)
(* C8 (amended).  Starting from an empty log, after N requests have been   *)
(* answered with success the log holds at most N records, and exactly N    *)
(* when no read or write of the log has failed; the records are newest     *)
(* first, have pairwise distinct generationId, and each record's imagePath *)
(* names an image file that exists in the content directory.               *)
(***************************************************************************)
C8_LogMatchesSuccesses ==
    /\ Len(metadataFile) <= SuccessCount
    /\ NoMetadataFailure => Len(metadataFile) = SuccessCount
    /\ NewestFirst(metadataFile)
    /\ EveryRecordHasItsFile(metadataFile)

\* Two requests were answered with success and the log holds both records.
C8_Witness ==
    /\ SuccessCount = 2
    /\ Len(metadataFile) = 2
    /\ metadataFile[1].createdAt > metadataFile[2].createdAt

\* The record of request r is in the log.
Recorded(r) ==
    \E i \in 1..Len(metadataFile) :
        metadataFile[i].generationId = fsLog[r].generationId

C10_AppendOnly ==
    [][\/ metadataFile' = metadataFile
       \/ /\ Len(metadataFile') = Len(metadataFile) + 1
          /\ Tail(metadataFile') = metadataFile]_vars

(***************************************************************************)
(* Claims C11 to C20.                                                      *)
(***************************************************************************)
\* s has the form data:image/<subtype>;base64,<payload>, with a subtype of
\* word characters and a payload of one line, both non-empty.
OfDataUriForm(s) ==
    \E n \in 1..Len(s) :
        /\ Len(s) >= 11 + n + 8 + 1
        /\ SubSeq(s, 1, 11) = <<"d", "a", "t", "a", ":", "i", "m", "a", "g", "e", "/">>
        /\ \A i \in 12..(11 + n) : IsWordChar(s[i])
        /\ SubSeq(s, 12 + n, 19 + n) = <<";", "b", "a", "s", "e", "6", "4", ",">>
        /\ \A i \in (20 + n)..Len(s) : ~IsLineTerminator(s[i])

\* Every attribute of the record is a string or missing.
StringsOrMissing(attributes) ==
    \A f \in DOMAIN attributes \ {"present"} : attributes[f].t \in {"undefined", "string"}

\* For each body a request can carry:
\*   invalid    settings, modelSettings, environmentSettings or imageData is
\*              missing, or imageData is a string that is not a data URI of
\*              an image;
\*   wellTyped  imageData and all attributes are strings or missing;
\*   unmatched  the body is complete and well typed but for its imageData,
\*              a non-empty string that does not match the data-URI pattern.
BodyFacts ==
    [b \in RequestBodies |->
        LET complete ==
                /\ b.settings.present
                /\ b.settings.modelSettings.present
                /\ b.settings.environmentSettings.present
            wellTyped ==
                /\ b.imageData.t \in {"undefined", "string"}
                /\ StringsOrMissing(b.settings.modelSettings)
                /\ StringsOrMissing(b.settings.environmentSettings)
            matches == b.imageData.t = "string" /\ OfDataUriForm(b.imageData.s)
        IN  [invalid |->
                \/ ~complete
                \/ b.imageData.t = "undefined"
                \/ b.imageData.t = "string" /\ ~matches,
             wellTyped |-> wellTyped,
             unmatched |->
                /\ complete
                /\ wellTyped
                /\ b.imageData.t = "string"
                /\ b.imageData.s # <<>>
                /\ ~matches]]

InvalidInput(r) == pc[r] # "idle" /\ BodyFacts[body[r]].invalid

WellTyped(r) == pc[r] # "idle" /\ BodyFacts[body[r]].wellTyped

\* The request made no call of the remote model and no filesystem call.
NothingDone(r) == calls[r] = <<>> /\ remote[r] = "none" /\ fsLog[r] = NoFsLog

C12_NoEscape ==
    \A r \in Requests :
        Handled(r) => pc[r] = "done" /\ res[r].answered /\ res[r].json

(***************************************************************************)
(* C13.  Each handled request issues at most one call to the remote model; *)
(* after any outcome the call is never retried and the request reaches     *)
(* exactly one terminal outcome: once the handler has ended, its answer,   *)
(* the outcome of its race and its calls never change.                     *)
(***************************************************************************)
C13_OneCallOneOutcome ==
    /\ [](\A r \in Requests :
            /\ Len(calls[r]) <= 1
            /\ pc[r] = "calling" => Len(calls[r]) = 1 /\ ~res[r].answered
            /\ result[r].kind # "none" => Handled(r) /\ Len(calls[r]) = 1)
    /\ [][\A r \in Requests :
            Handled(r) => /\ pc'[r] = pc[r]
                          /\ res'[r] = res[r]
                          /\ result'[r] = result[r]
                          /\ calls'[r] = calls[r]]_vars

\* A request timed out and its remote call settled afterwards; another got
\* a transport error.  Each made one call.
C13_Witness ==
    /\ \E r \in Requests :
          TimedOut(r) /\ remote[r] = "settled" /\ Len(calls[r]) = 1
    /\ \E r \in Requests : TransportError(r) /\ Len(calls[r]) = 1

\* The first part of the response, in response order, that carries inline
\* data with an image media type.
FirstImagePart(response) ==
    response.parts[CHOOSE i \in 1..Len(response.parts) :
        /\ response.parts[i].inline
        /\ response.parts[i].data # ""
        /\ StartsWith(response.parts[i].mimeType, <<"i", "m", "a", "g", "e", "/">>)
        /\ \A j \in 1..(i - 1) :
              ~(/\ response.parts[j].inline
                /\ response.parts[j].data # ""
                /\ StartsWith(response.parts[j].mimeType, <<"i", "m", "a", "g", "e", "/">>))]

\* The file request r wrote to the content directory.
SavedFile(r) == CHOOSE f \in imagesDir : f.generationId = fsLog[r].generationId

(***************************************************************************)
(* C14.  When a normally finished response carries several parts with      *)
(* inline image data, the image that is saved and served is the first such *)
(* part in response order.                                                 *)
(* Violated: the parts loop overwrites generatedImageData on every image   *)
(* part, so the last one is saved.                                         *)
(***************************************************************************)
C14_FirstImageSaved ==
    \A r \in Requests :
        /\ GotResponse(r)
        /\ FinishedNormally(result[r].response)
        /\ HasImagePart(result[r].response)
        /\ fsLog[r].imageWrite = "ok"
        => SavedFile(r).content = FirstImagePart(result[r].response).data

\* The two responses are equal in everything but their safety ratings.
DifferOnlyInRatings(a, b) ==
    /\ a # b
    /\ [a EXCEPT !.candidateRatings = NoRatings, !.feedbackRatings = NoRatings]
          = [b EXCEPT !.candidateRatings = NoRatings, !.feedbackRatings = NoRatings]

(***************************************************************************)
(* C15.  The failure message sent to the caller never contains the remote  *)
(* API's safety-rating payload verbatim: two blocked responses that differ *)
(* only in their safety ratings produce the same client-facing message.    *)
(* Violated: the message of a blocked response ends with " Details: "      *)
(* followed by JSON.stringify(safetyRatings).                              *)
(***************************************************************************)
C15_RatingsNotInMessage ==
    \A r, q \in Requests :
        /\ BlockedResponse(r)
        /\ BlockedResponse(q)
        /\ DifferOnlyInRatings(result[r].response, result[q].response)
        => res[r].message = res[q].message

\* ACCEPTED_IMAGE_FORMATS
ACCEPTED_IMAGE_FORMATS == {<<"i", "m", "a", "g", "e", "/", "j", "p", "e", "g">>, <<"i", "m", "a", "g", "e", "/", "p", "n", "g">>, <<"i", "m", "a", "g", "e", "/", "w", "e", "b", "p">>}

\* The media type a data URI declares: the text between "data:" and the
\* first ";" (the whole rest when there is none).
DeclaredMediaType(s) ==
    LET rest == SubSeq(s, 6, Len(s))
        stop == IF \E i \in 1..Len(rest) : rest[i] = ";"
                THEN CHOOSE i \in 1..Len(rest) :
                        rest[i] = ";" /\ \A j \in 1..(i - 1) : rest[j] # ";"
                ELSE Len(rest) + 1
    IN  SubSeq(rest, 1, stop - 1)

\* The sourceImage of request r is a data URI declaring a media type
\* outside the accepted set (imageData and attributes being strings or
\* missing).
UnacceptedMediaType(r) ==
    /\ WellTyped(r)
    /\ body[r].imageData.t = "string"
    /\ StartsWith(body[r].imageData.s, <<"d", "a", "t", "a", ":">>)
    /\ DeclaredMediaType(body[r].imageData.s) \notin ACCEPTED_IMAGE_FORMATS

(***************************************************************************)
(* C16.  A request whose sourceImage declares a media type outside the     *)
(* accepted set {image/jpeg, image/png, image/webp} is rejected with a     *)
(* 400 failure envelope and no remote call is made.                        *)
(* Violated: the route checks the prefix data:image/ and the pattern       *)
(* image/<word characters>, never the accepted set; image/gif passes and   *)
(* is sent to the remote model.                                            *)
(***************************************************************************)
C16_UnacceptedTypeRejected ==
    \A r \in Requests :
        UnacceptedMediaType(r)
            => /\ calls[r] = <<>>
               /\ pc[r] = "done"
               /\ IsFailureEnvelope(res[r])
               /\ res[r].status = 400

(***************************************************************************)
(* C17.  On a successful generation the promptUsed returned to the caller  *)
(* is the same string that was sent to the remote model and stored in the  *)
(* metadata record, and the returned imageUrl equals the record's          *)
(* imagePath, '/images/<generationId>.<ext>', which names the file just    *)
(* written.  (A record exists unless the update of the log failed.)        *)
(***************************************************************************)
C17_SameEverywhere ==
    \A r \in Requests :
        res[r].success
        => /\ Len(calls[r]) = 1
           /\ res[r].promptUsed = calls[r][1].text
           /\ res[r].promptUsed # <<>>
           /\ res[r].imageUrl.route = "/images"
           /\ res[r].imageUrl.generationId = fsLog[r].generationId
           /\ fsLog[r].generationId > 0
           /\ fsLog[r].imageWrite = "ok"
           /\ res[r].imageUrl.fileExtension = SavedFile(r).fileExtension
           /\ FileExists(res[r].imageUrl)
           /\ \A i \in 1..Len(metadataFile) :
                 metadataFile[i].generationId = fsLog[r].generationId
                 => /\ metadataFile[i].promptUsed = res[r].promptUsed
                    /\ metadataFile[i].imagePath = res[r].imageUrl
                    /\ metadataFile[i].settingsUsed = body[r].settings

\* A request was answered with success and its record is in the log.
C17_Witness ==
    \E r \in Requests :
        res[r].success /\ Recorded(r) /\ FileExists(res[r].imageUrl)

\* Well-formed data URIs of the accepted media types, with the media type,
\* the payload and the file extension each is expected to give.
AcceptedUploads ==
    { [uri |-> <<"d", "a", "t", "a", ":", "i", "m", "a", "g", "e", "/", "p", "n", "g", ";", "b",
                 "a", "s", "e", "6", "4", ",", "i", "V", "B", "O">>, mediaType |-> <<"i", "m", "a", "g", "e", "/", "p", "n", "g">>,
       payload |-> <<"i", "V", "B", "O">>, extension |-> <<"p", "n", "g">>],
      [uri |-> <<"d", "a", "t", "a", ":", "i", "m", "a", "g", "e", "/", "j", "p", "e", "g", ";",
                 "b", "a", "s", "e", "6", "4", ",", "/", "9", "j", "/">>, mediaType |-> <<"i", "m", "a", "g", "e", "/", "j", "p", "e", "g">>,
       payload |-> <<"/", "9", "j", "/">>, extension |-> <<"j", "p", "e", "g">>],
      [uri |-> <<"d", "a", "t", "a", ":", "i", "m", "a", "g", "e", "/", "w", "e", "b", "p", ";",
                 "b", "a", "s", "e", "6", "4", ",", "U", "k", "l", "G">>, mediaType |-> <<"i", "m", "a", "g", "e", "/", "w", "e", "b", "p">>,
       payload |-> <<"U", "k", "l", "G">>, extension |-> <<"w", "e", "b", "p">>] }

\* fileExtension over the media types that occur, and over a media type
\* without a subtype.
ExtensionOf ==
    [m \in {u.mediaType : u \in AcceptedUploads} \cup {<<"i", "m", "a", "g", "e", "/", "g", "i",
                                                         "f">>, <<"i", "m", "a", "g", "e", "/">>, <<"i", "m", "a", "g", "e">>}
        |-> fileExtension(m)]

\* Decoding an accepted upload yields its media type and payload, and the
\* file extension derived from the media type is the expected one.
DecodesAccepted ==
    \A r \in Requests, u \in AcceptedUploads :
        calls[r] # <<>> /\ body[r].imageData = JSString(u.uri)
        => /\ calls[r][1].mimeType = u.mediaType
           /\ calls[r][1].data = u.payload
           /\ ExtensionOf[calls[r][1].mimeType] = u.extension

\* Deriving the file name never fails: every file written has an extension,
\* and a media type without a subtype gives 'jpg'.
ExtensionNeverFails ==
    /\ \A f \in imagesDir : f.fileExtension # <<>>
    /\ \A r \in Requests : res[r].success => res[r].imageUrl.fileExtension # <<>>
    /\ ExtensionOf[<<"i", "m", "a", "g", "e", "/">>] = <<"j", "p", "g">>
    /\ ExtensionOf[<<"i", "m", "a", "g", "e">>] = <<"j", "p", "g">>

\* Request r carries such a body.
UnmatchedString(r) == pc[r] # "idle" /\ BodyFacts[body[r]].unmatched

C20_PromptNeverFails ==
    \A r \in Requests :
        pc[r] # "idle" /\ ~InvalidRequestShape(r)
            => /\ prompt[r] # <<>>
               /\ res[r] # UnexpectedFailure

(***************************************************************************)
(* Properties of the prompt text.                                          *)
(***************************************************************************)
\* The text of prompt p after its token from and before its token to.
Clause(p, from, to) ==
    LET i == CHOOSE k \in 1..Len(p) : p[k] = from
        j == CHOOSE k \in 1..Len(p) : p[k] = to
    IN  SubSeq(p, i + 1, j - 1)

SubjectClause(r) == Clause(prompt[r], "CREATE A PHOTOREALISTIC IMAGE of ", "\n\nSetting: ")

SettingClause(r) == Clause(prompt[r], "\n\nSetting: ", "\n\nStyle: ")

\* The neutral values of the attributes, in lower case.
NeutralSentinels ==
    [ethnicity |-> {<<"d", "e", "f", "a", "u", "l", "t">>, <<"a", "m", "b", "i", "g", "u", "o", "u", "s", " ", "e", "t", "h", "n", "i", "c", "i", "t", "y">>, <<"u", "n", "s", "p", "e", "c", "i", "f", "i", "e", "d">>},
     bodyType |-> {<<"d", "e", "f", "a", "u", "l", "t">>, <<"a", "v", "e", "r", "a", "g", "e">>},
     ageRange |-> {<<"d", "e", "f", "a", "u", "l", "t">>, <<"2", "6", "-", "3", "5">>},
     height |-> {<<"a", "v", "e", "r", "a", "g", "e">>},
     accessories |-> {<<"n", "o", "n", "e">>}]

\* The fixed text that marks the fragment of an attribute.
FragmentMark ==
    [bodyType |-> " body proportions", ageRange |-> " age range", height |-> " height",
     accessories |-> "wearing "]

\* The subject clause of request r holds a fragment for attribute f.
Emitted(r, f) ==
    IF f = "ethnicity"
    THEN \/ "with diverse ethnic features" \in Range(SubjectClause(r))
         \/ LET e == body[r].settings.modelSettings.ethnicity
            IN  e.t = "string" /\ e.s # <<>> /\ Includes(SubjectClause(r), e.s)
    ELSE FragmentMark[f] \in Range(SubjectClause(r))

\* The value of attribute f in request r is present and not a neutral one.
Distinguishing(r, f) ==
    LET v == body[r].settings.modelSettings[f]
    IN  v.t = "string" /\ v.s # <<>> /\ ToLowerCase(v.s) \notin NeutralSentinels[f]

(***************************************************************************)
(* C21.  The subject clause holds a fragment for ethnicity, body type, age *)
(* range, height or accessories exactly when the value is present and      *)
(* differs, letter case aside, from the neutral values of its field:       *)
(* bodyType 'Average', ageRange '26-35' and ethnicity 'Ambiguous           *)
(* Ethnicity' give no fragment, and bodyType 'Curvy' gives 'with Curvy     *)
(* body proportions'.                                                      *)
(***************************************************************************)
C21_SentinelSuppression ==
    \A r \in Requests :
        pc[r] # "idle"
        => /\ \A f \in DOMAIN NeutralSentinels : Emitted(r, f) <=> Distinguishing(r, f)
           /\ LET ms == body[r].settings.modelSettings
              IN  /\ ms.bodyType = JSString(<<"A", "v", "e", "r", "a", "g",
                                              "e">>) => ~Emitted(r, "bodyType")
                  /\ ms.ageRange = JSString(<<"2", "6", "-", "3", "5">>) => ~Emitted(r, "ageRange")
                  /\ ms.ethnicity = JSString(<<"A", "m", "b", "i", "g", "u", "o", "u", "s", " ",
                                               "E", "t", "h", "n", "i", "c", "i", "t", "y">>)
                        => ~Emitted(r, "ethnicity")
                  /\ ms.bodyType = JSString(<<"C", "u", "r", "v", "y">>)
                        => Includes(SubjectClause(r),
                                    <<"with ">> \o <<"C", "u", "r", "v",
                                                     "y">> \o <<" body proportions">>)

\* A prompt was built for bodyType 'Curvy', one for the neutral attributes,
\* and one for 'AVERAGE' in capitals.
C21_Witness ==
    \E r, q \in Requests :
        /\ pc[r] = "calling" /\ pc[q] = "calling"
        /\ body[r].settings.modelSettings.bodyType = JSString(<<"C", "u", "r", "v", "y">>)
        /\ body[q].settings.modelSettings.bodyType \in
              {JSString(<<"A", "v", "e", "r", "a", "g", "e">>), JSString(<<"A", "V", "E", "R", "A", "G", "E">>)}

\* The preset keys of the lookup table and their sentences.
LookupTable ==
    { <<<<"s", "t", "u", "d", "i", "o", "-", "w", "h", "i", "t",
          "e">>, "Clean, professional white studio background">>,
      <<<<"s", "t", "u", "d", "i", "o", "-", "g", "r", "a", "d", "i", "e", "n", "t">>,
        "Clean, professional studio background with a subtle color gradient">>,
      <<<<"i", "n", "-", "s", "t", "o", "r",
          "e">>, "Tasteful retail store environment with appropriate fixtures">>,
      <<<<"l", "i", "f", "e", "s", "t", "y", "l", "e", "-", "h", "o", "m", "e">>,
        "Lifestyle home setting with tasteful, uncluttered interior design">>,
      <<<<"l", "i", "f", "e", "s", "t", "y", "l", "e", "-", "o", "f", "f", "i", "c",
          "e">>, "Professional lifestyle office setting">>,
      <<<<"o", "u", "t", "d", "o", "o", "r", "-", "u", "r", "b", "a",
          "n">>, "Outdoor urban city setting with appropriate architecture">>,
      <<<<"o", "u", "t", "d", "o", "o", "r", "-", "n", "a", "t", "u", "r", "e">>,
        "Outdoor nature setting with appropriate natural elements (trees, greenery, sky)">>,
      <<<<"s", "e", "a", "s", "o", "n", "a", "l", "-", "s", "p", "r", "i", "n",
          "g">>, "Outdoor setting with a bright, fresh Spring atmosphere">>,
      <<<<"s", "e", "a", "s", "o", "n", "a", "l", "-", "s", "u", "m", "m", "e",
          "r">>, "Outdoor setting with a warm, sunny Summer atmosphere">>,
      <<<<"s", "e", "a", "s", "o", "n", "a", "l", "-", "f", "a", "l",
          "l">>, "Outdoor setting with a crisp, colorful Autumn/Fall atmosphere">>,
      <<<<"s", "e", "a", "s", "o", "n", "a", "l", "-", "w", "i", "n", "t", "e", "r">>,
        "Outdoor setting with a cool, possibly snowy Winter atmosphere">> }

\* The value is a non-empty string.
Given(v) == v.t = "string" /\ v.s # <<>>

\* The preset key of request r, an absent key counting as 'studio-white'.
PresetKey(r) ==
    LET p == body[r].settings.environmentSettings.backgroundPreset
    IN  IF Given(p) THEN p.s ELSE <<"s", "t", "u", "d", "i", "o", "-", "w", "h", "i", "t", "e">>

(***************************************************************************)
(* C22.  The setting clause begins with 'Custom setting: ' and the custom  *)
(* text when a non-empty custom background is given, whatever the preset   *)
(* key; otherwise with the sentence of the lookup table for a known preset *)
(* key (an absent key counting as 'studio-white'), and with the generic    *)
(* clean, well-lit background phrase for an unknown key; a prompt is built *)
(* in every case.                                                          *)
(***************************************************************************)
C22_BaseOfSettingClause ==
    \A r \in Requests :
        pc[r] # "idle"
        => /\ pc[r] = "calling"
           /\ ~res[r].answered
           /\ LET custom == body[r].settings.environmentSettings.backgroundCustom
              IN  IF Given(custom)
                  THEN StartsWith(SettingClause(r), <<"Custom setting: ">> \o custom.s)
                  ELSE IF \E e \in LookupTable : e[1] = PresetKey(r)
                  THEN \E e \in LookupTable :
                          e[1] = PresetKey(r) /\ SettingClause(r)[1] = e[2]
                  ELSE SettingClause(r)[1] = "Clean, well-lit background"

\* Prompts were built for a custom background given together with a preset
\* key, and for an unknown preset key.
C22_Witness ==
    \E r, q \in Requests :
        /\ pc[r] = "calling" /\ pc[q] = "calling"
        /\ Given(body[r].settings.environmentSettings.backgroundCustom)
        /\ body[r].settings.environmentSettings.backgroundPreset = JSString(<<"s", "t", "u", "d", "i", "o", "-", "w", "h", "i", "t", "e">>)
        /\ ~Given(body[q].settings.environmentSettings.backgroundCustom)
        /\ PresetKey(q) = <<"b", "e", "a", "c", "h">>

\* The setting clause of request r holds the fragment for its season.
SeasonFragment(r) ==
    LET season == body[r].settings.environmentSettings.season
    IN  /\ Given(season)
        /\ Includes(SettingClause(r), <<" during ">> \o season.s \o <<" season">>)

(***************************************************************************)
(* C23.  The setting clause holds the season fragment whenever a season is *)
(* set and the preset key does not encode a season (here: does not contain *)
(* the text 'seasonal'), and never when the preset key is one of the       *)
(* seasonal-* keys.                                                        *)
(***************************************************************************)
C23_SeasonFragment ==
    \A r \in Requests :
        pc[r] = "calling"
        => /\ Given(body[r].settings.environmentSettings.season)
                /\ ~Includes(PresetKey(r), <<"s", "e", "a", "s", "o", "n", "a", "l">>)
              => SeasonFragment(r)
           /\ StartsWith(PresetKey(r), <<"s", "e", "a", "s", "o", "n", "a", "l",
                                         "-">>) => ~SeasonFragment(r)

(***************************************************************************)
(* C24.  Without the credential for the remote model in its configuration  *)
(* the server never listens and never handles a /generate request.         *)
(***************************************************************************)
C24_NoCredentialNoService ==
    ~Truthy(geminiApiKey)
        => /\ server # "listening"
           /\ \A r \in Requests : pc[r] = "idle"

\* Startup ended the process of a server without credential, or (in another
\* run) a server with its credential handled a request.
C24_Witness == ~Truthy(geminiApiKey) /\ server = "exited"

(***************************************************************************)
(* C28.  A remote call that fails with an error whose message contains     *)
(* 'API key not valid' is answered with status 401 and the message         *)
(* 'Image generation failed: Invalid API Key.', whatever else the error    *)
(* message contains.                                                       *)
(***************************************************************************)
C28_InvalidKeyClassified ==
    \A r \in Requests :
        result[r].kind = "error" /\ Includes(result[r].errorMessage, <<"A", "P", "I", " ", "k", "e", "y", " ", "n", "o", "t", " ", "v", "a", "l", "i", "d">>)
            => res[r] = Failure(401, <<"Image generation failed: Invalid API Key.">>)

(***************************************************************************)
(* C29.  Once a request was answered with the timeout failure, nothing     *)
(* that happens later changes its answer, its calls or its filesystem      *)
(* record, and the step in which its remote call settles changes no file   *)
(* and no answer at all.                                                   *)
(***************************************************************************)
C29_LateResultIgnored ==
    [][\A r \in Requests :
          timer[r] = "fired"
          => /\ res[r] = ApiErrorResponse(TimeoutErrorMessage)
             /\ res'[r] = res[r]
             /\ fsLog'[r] = NoFsLog
             /\ calls'[r] = calls[r]
             /\ remote'[r] # remote[r]
                   => /\ imagesDir' = imagesDir
                      /\ metadataFile' = metadataFile
                      /\ res' = res]_vars

\* The remote call of a request settled after the request was answered with
\* the timeout failure.
C29_Witness ==
    \E r \in Requests :
        timer[r] = "fired" /\ remote[r] = "settled" /\ res[r].status = 504
(***************************************************************************)
(* C25.  The gallery holds at most MAX_GALLERY_ITEMS items, newest first;  *)
(* every addImage puts the new item first, in front of the items held      *)
(* before, of which a full gallery loses the last (the oldest) and no      *)
(* other.                                                                  *)
(***************************************************************************)
C25_GalleryCapped ==
    /\ [](/\ Len(galleryItems) <= MAX_GALLERY_ITEMS
          /\ \A i, j \in 1..Len(galleryItems) :
                i < j => galleryItems[i].timestamp > galleryItems[j].timestamp)
    /\ [][now' = now + 1
            => /\ galleryItems'[1].timestamp = now'
               /\ IF Len(galleryItems) = MAX_GALLERY_ITEMS
                  THEN Tail(galleryItems') = SubSeq(galleryItems, 1, MAX_GALLERY_ITEMS - 1)
                  ELSE Tail(galleryItems') = galleryItems]_vars

\* An item was added to a full gallery, after an item was deleted.
C25_Witness ==
    /\ Len(galleryItems) = MAX_GALLERY_ITEMS
    /\ now > MAX_GALLERY_ITEMS + deleted
    /\ deleted > 0

(***************************************************************************)
(* C26.  While a generation request is in flight isLoading is true and the *)
(* Generate button is disabled, so at most one request is in flight; when  *)
(* none is in flight isLoading is false.                                   *)
(***************************************************************************)
C26_LoadingWhileInFlight ==
    /\ pending > 0 => generationStore.isLoading /\ isGenerateDisabled
    /\ pending <= 1
    /\ pending = 0 => ~generationStore.isLoading

(***************************************************************************)
(* C27.  When a generation ends, either its image is added to the gallery: *)
(* then it is the first item, in front of the items held before, its path  *)
(* is not the path of another item and is the one of the current image; or *)
(* the gallery is unchanged: then no generated image is shown and the      *)
(* error message is set.                                                   *)
(***************************************************************************)
C27_OutcomeShown ==
    [][pending' < pending
         => IF galleryItems' # galleryItems
            THEN /\ Tail(galleryItems') = galleryItems
                 /\ \A i \in 1..Len(galleryItems) :
                       galleryItems[i].relativePath # galleryItems'[1].relativePath
                 /\ generationStore'.generatedImageRelativePath
                       = galleryItems'[1].relativePath
                 /\ generationStore'.errorMessage = generationStore.errorMessage
            ELSE /\ generationStore'.generatedImageRelativePath = NoUrl
                 /\ generationStore'.errorMessage # <<>>]_vars

(***************************************************************************)
(* C30.  From the default settings on, backgroundPreset and                *)
(* backgroundCustom are never both non-empty.                              *)
(***************************************************************************)
C30_BackgroundExclusive ==
    ~(environmentSettings.backgroundPreset # <<>>
        /\ environmentSettings.backgroundCustom # <<>>)

\* A custom description was entered while a preset was selected, and the
\* preset is cleared.
C30_Witness ==
    /\ environmentSettings.backgroundCustom # <<>>
    /\ environmentSettings.backgroundPreset = <<>>
    /\ environmentSettings.season # defaultEnvironmentSettings.season
====
